---- MODULE Spec2Model ----
(***************************************************************************)
(* Verification model of the expos boot-time support crates.               *)
(*                                                                         *)
(*   range         RangeSet: sorted set of inclusive u64 ranges            *)
(*   ticket_mutex  TicketMutex: ticket spin lock                           *)
(*   uefi          EFI_STATUS decoding, UEFI / ACPI table validation,      *)
(*                 configuration tables, available-memory map              *)
(*                                                                         *)
(* Machine integers are scaled down: u64 is 0..U64_MAX and usize is        *)
(* 0..USIZE_MAX, with the same wrap-around / overflow-panic behaviour as   *)
(* the Rust types.  The RangeSet backing array is scaled to RANGE_SET_LEN  *)
(* slots.                                                                  *)
(***************************************************************************)
EXTENDS Integers, Sequences, FiniteSets, TLC

(***************************************************************************)
(* Bounds of the model.                                                    *)
(***************************************************************************)
\* Largest value of the scaled u64 (u64::MAX in the source).
U64_MAX == 4
\* Scaled length of the fixed array backing a RangeSet (128 in the source).
RANGE_SET_LEN == 2
\* Largest value of the scaled usize (usize::MAX in the source).
USIZE_MAX == 5
\* Number of concurrent callers of TicketMutex::lock.
NumCallers == 3
\* Width in bits of the scaled usize that carries an EFI_STATUS (usize::BITS).
STATUS_BITS == 7
\* Scaled size of a page in bytes (0x1000 in the source).
PAGE_SIZE == 2
\* Largest page count, and largest number of slots, of a modelled memory map.
MaxPages == 2
MaxSlots == 2
\* Longest buffer of which every content over SampleBytes is given to crc32.
MaxCrcLen == 2
\* Bytes of the string of a write_str call.
StrLen == 2
\* write_str calls of a caller, and println calls of the panic handler.
MaxCalls == 1
HandlerCalls == 4
\* Width in bits of the scaled usize in which table lengths are computed
\* (usize::BITS); the lengths declared by the modelled tables are below 2^16.
LENGTH_BITS == 24

VARIABLES
    \* ---- range crate ----
    overflow_checks, \* build setting: TRUE = integer overflow panics, FALSE = it wraps
    ranges,          \* RangeSet.ranges[..in_use]
    op,              \* last RangeSet operation: "new", "insert", "remove", "size"
    hits,            \* history: how many entries the argument of that operation overlapped
    pre_ok,          \* history: the set was sorted and non-adjacent before that operation
    ret,             \* its outcome: "Ok", "FullRangeSet", "panic"
    size_ret,        \* value returned by that operation when it is size(), else 0
    \* ---- ticket_mutex crate ----
    next_ticket,     \* TicketMutex.next_ticket
    now_serving,     \* TicketMutex.now_serving
    pc,              \* per caller: "idle", "spin" (inside lock), "cs" (owns a guard)
    ticket,          \* per caller: the local `ticket` of its lock() call
    order,           \* history: callers with a ticket and no guard yet, in draw order
    last_ticket,     \* history: the ticket drawn by the latest fetch_add, -1 if none
    \* ---- uefi crate: EFI_STATUS ----
    status_word,     \* the EfiStatus word handed to Status::from, -1 before any call
    status,          \* the Status it returned
    \* ---- uefi crate: UEFI and ACPI tables ----
    mem,             \* firmware memory from the table pointer on, a sequence of bytes
    tbl_kind,        \* the constructor last called on it, "none" before any call
    tbl_ret,         \* its outcome: "Ok", an Error variant, "panic"; "running" inside Madt::new
    tbl_sums,        \* history: checksum computations (crc32 / add_bytes) it made
    tbl_view,        \* the entries held by the value it built, <<>> when none
    tampered,        \* history: offset of a byte altered since the table validated, else -1
    madt_ptr,        \* Madt::new: the local `ptr`, as an offset from the table pointer
    \* ---- uefi crate: configuration tables ----
    cfg_fw,          \* firmware memory at the configuration-table pointer: the entries
    cfg_num,         \* the num_entries handed to ConfigurationTables::new, -1 before any call
    cfg_tables,      \* ConfigurationTables.config_tables, <<>> when none was built
    cfg_ret,         \* outcome of ConfigurationTables::new
    cfg_ptr,         \* outcome of acpi_rsdp20_ptr on it, [ok |-> FALSE, err |-> "none"] before
    \* ---- uefi crate: get_available_memory ----
    gm_fw,           \* what GetMemoryMap answers: status, map, map size, descriptor size, key
    gm_pc,           \* "idle", "walk" (in the descriptor loop), "done"
    gm_idx,          \* the local `idx`
    gm_ranges,       \* the local `ret`: RangeSet.ranges[..in_use]
    gm_result,       \* outcome: "Ok", an error, "panic"; "none" until it returns
    gm_key,          \* the map key returned with Ok, else -1
    fw_calls,        \* history: the boot-service calls made so far, in order
    \* ---- uefi crate: crc32 ----
    crc_buf,         \* the buffer at `ptr`, `len` bytes long
    crc_ret,         \* the u32 returned by crc32, <<>> before the call
    \* ---- expos crate: efi_main ----
    boot_pc,         \* "start", "memory", "exit", "os_main", "end", "panic"
    exit_status,     \* the EFI_STATUS with which firmware answers ExitBootServices
    \* ---- serial console (expos and kernel crates) ----
    com1,            \* what the COM1 mutex protects: "None" or "Some" (a SerialPort)
    k_pc,            \* boot processor: "init_serial", "init_done", "panic", "halt"
    written,         \* per caller: bytes its write_str call has written, -1 before its first call
    calls,           \* per caller: write_str calls made
    com_out          \* history: the bytes written to the serial port, in order

range_vars == <<overflow_checks, ranges, op, hits, pre_ok, ret, size_ret>>
mutex_vars == <<next_ticket, now_serving, pc, ticket, order, last_ticket>>
status_vars == <<status_word, status>>
table_vars == <<mem, tbl_kind, tbl_ret, tbl_sums, tbl_view, tampered, madt_ptr>>
cfg_vars == <<cfg_fw, cfg_num, cfg_tables, cfg_ret, cfg_ptr>>
gm_vars == <<gm_fw, gm_pc, gm_idx, gm_ranges, gm_result, gm_key, fw_calls>>
crc_vars == <<crc_buf, crc_ret>>
uefi_vars == <<status_vars, table_vars, cfg_vars, gm_vars, crc_vars>>
boot_vars == <<boot_pc, exit_status>>
con_vars == <<com1, k_pc, written, calls, com_out>>
app_vars == <<boot_vars, con_vars>>
vars == <<overflow_checks, ranges, op, hits, pre_ok, ret, size_ret,
          next_ticket, now_serving, pc, ticket, order, last_ticket,
          status_word, status,
          mem, tbl_kind, tbl_ret, tbl_sums, tbl_view, tampered, madt_ptr,
          cfg_fw, cfg_num, cfg_tables, cfg_ret, cfg_ptr,
          gm_fw, gm_pc, gm_idx, gm_ranges, gm_result, gm_key, fw_calls,
          crc_buf, crc_ret,
          boot_pc, exit_status,
          com1, k_pc, written, calls, com_out>>

(***************************************************************************)
(* range crate: Range                                                      *)
(***************************************************************************)
U64 == 0..U64_MAX

\* Range::new: the values for which it returns Ok.
Range == {r \in [start : U64, end : U64] : r.start <= r.end}

max(a, b) == IF a >= b THEN a ELSE b

\* u64 `x + 1` and `x - 1`: the wrapped value, and whether the operation overflows.
wrapping_inc(x) == (x + 1) % (U64_MAX + 1)
wrapping_dec(x) == (x + U64_MAX) % (U64_MAX + 1)
inc_overflows(x) == x = U64_MAX
dec_overflows(x) == x = 0

contains_point(self, point) == point >= self.start /\ point <= self.end

contains_range(self, range) ==
    contains_point(self, range.start) /\ contains_point(self, range.end)

overlaps_onesided(self, range) ==
    \/ contains_point(self, range.start)
    \/ contains_point(self, range.end)

overlaps(self, range) ==
    \/ contains_point(self, range.start)
    \/ contains_point(self, range.end)
    \/ contains_point(range, self.start)
    \/ contains_point(range, self.end)

\* Range::size: `self.end - self.start + 1` in u64.
range_size_overflows(self) == inc_overflows(self.end - self.start)
range_size(self) == wrapping_inc(self.end - self.start)

(***************************************************************************)
(* range crate: RangeSet.  A set is the sequence ranges[..in_use]; the     *)
(* slots at and above in_use are never read by the code.                   *)
(***************************************************************************)
\* Outcomes of an operation on the set `rs`.
Ok(rs) == [ranges |-> rs, ret |-> "Ok"]
Err(rs, e) == [ranges |-> rs, ret |-> e]
Panic(rs) == [ranges |-> rs, ret |-> "panic"]

\* An arithmetic overflow panics when the build has overflow checks, else wraps.
panics(overflows) == overflow_checks /\ overflows

\* self.in_use >= self.ranges.len()
is_full(rs) == Len(rs) >= RANGE_SET_LEN

\* ranges.copy_within(j + 1..in_use, j); in_use -= 1   (1-based j)
remove_at(rs, j) == SubSeq(rs, 1, j - 1) \o SubSeq(rs, j + 1, Len(rs))

\* ranges.copy_within(j..in_use, j + 1); ranges[j] = x; in_use += 1   (1-based j)
insert_at(rs, j, x) == SubSeq(rs, 1, j - 1) \o <<x>> \o SubSeq(rs, j, Len(rs))

\* The index at which the search loop of sort_insert stops: the first entry
\* whose start is equal to or above range.start; 0 when the loop runs out.
sort_insert_stop(rs, range) ==
    LET found == {i \in 1..Len(rs) : range.start <= rs[i].start}
    IN IF found = {} THEN 0 ELSE CHOOSE i \in found : \A j \in found : i <= j

sort_insert(rs, range) ==
    LET stop == sort_insert_stop(rs, range)
        idx == IF stop = 0 THEN Len(rs) + 1 ELSE stop
    IN IF stop # 0 /\ range.start = rs[stop].start
       THEN Ok([rs EXCEPT ![stop].end = max(range.end, rs[stop].end)])
       ELSE IF is_full(rs) THEN Err(rs, "FullRangeSet")
       ELSE Ok(insert_at(rs, idx, range))

\* The `while i < self.in_use - 1` loop of merge, from index i (1-based).
\* merge is only called after a successful sort_insert, so in_use >= 1.
RECURSIVE merge_loop(_, _)
merge_loop(rs, i) ==
    IF ~(i < Len(rs)) THEN Ok(rs)
    ELSE IF panics(inc_overflows(rs[i].end)) THEN Panic(rs)
    ELSE LET end1 == wrapping_inc(rs[i].end) IN
         IF rs[i + 1].start > end1 THEN merge_loop(rs, i + 1)
         ELSE LET rs2 == IF contains_point(rs[i + 1], end1)
                         THEN [rs EXCEPT ![i].end = rs[i + 1].end]
                         ELSE rs
              IN merge_loop(remove_at(rs2, i + 1), i)

merge(rs) == merge_loop(rs, 1)

insert(rs, range) ==
    LET s == sort_insert(rs, range)
    IN IF s.ret # "Ok" THEN s ELSE merge(s.ranges)

\* The split branch of remove, with the left part ending at range.start.
remove_split_touching(rs, i, range) ==
    IF is_full(rs) THEN Err(rs, "FullRangeSet")
    ELSE Ok([insert_at(rs, i, [start |-> rs[i].start, end |-> range.start])
                EXCEPT ![i + 1].start = wrapping_inc(range.end)])

\* The split branch of remove (the removed range is in the middle of entry i).
remove_split(rs, i, range) ==
    IF is_full(rs) THEN Err(rs, "FullRangeSet")
    ELSE IF panics(dec_overflows(range.start)) THEN Panic(rs)
    ELSE IF rs[i].start > wrapping_dec(range.start) THEN Err(rs, "InvalidBoundaries")
    ELSE LET new_range == [start |-> rs[i].start, end |-> wrapping_dec(range.start)]
             rs2 == insert_at(rs, i, new_range)
         IN IF panics(inc_overflows(range.end)) THEN Panic(rs2)
            ELSE Ok([rs2 EXCEPT ![i + 1].start = wrapping_inc(range.end)])

\* The `while i < self.in_use` loop of remove, from index i (1-based).
RECURSIVE remove_loop(_, _, _)
remove_loop(rs, i, range) ==
    IF ~(i <= Len(rs)) THEN Ok(rs)
    ELSE IF rs[i].start > range.end THEN Ok(rs)
    ELSE IF ~overlaps(rs[i], range) THEN remove_loop(rs, i + 1, range)
    ELSE IF contains_range(rs[i], range) THEN
        IF rs[i] = range THEN Ok(remove_at(rs, i))
        ELSE IF rs[i].start = range.start THEN
            IF panics(inc_overflows(range.end)) THEN Panic(rs)
            ELSE Ok([rs EXCEPT ![i].start = wrapping_inc(range.end)])
        ELSE IF rs[i].end = range.end THEN
            IF panics(dec_overflows(range.start)) THEN Panic(rs)
            ELSE Ok([rs EXCEPT ![i].end = wrapping_dec(range.start)])
        ELSE remove_split(rs, i, range)
    ELSE IF contains_range(range, rs[i]) THEN remove_loop(remove_at(rs, i), i, range)
    ELSE IF contains_point(rs[i], range.start) THEN
        IF panics(dec_overflows(range.start)) THEN Panic(rs)
        ELSE remove_loop([rs EXCEPT ![i].end = wrapping_dec(range.start)], i + 1, range)
    ELSE
        IF panics(inc_overflows(range.end)) THEN Panic(rs)
        ELSE remove_loop([rs EXCEPT ![i].start = wrapping_inc(range.end)], i + 1, range)

remove(rs, range) == remove_loop(rs, 1, range)

\* RangeSet::size: the u64 sum of Range::size over ranges[..in_use].
RECURSIVE size_fold(_, _, _)
size_fold(rs, i, acc) ==
    IF i > Len(rs) THEN [val |-> acc, ret |-> "Ok"]
    ELSE IF panics(range_size_overflows(rs[i])) THEN [val |-> 0, ret |-> "panic"]
    ELSE LET sz == range_size(rs[i]) IN
         IF panics(acc + sz > U64_MAX) THEN [val |-> 0, ret |-> "panic"]
         ELSE size_fold(rs, i + 1, (acc + sz) % (U64_MAX + 1))

size(rs) == size_fold(rs, 1, 0)

(***************************************************************************)
(* ticket_mutex crate                                                      *)
(***************************************************************************)
Callers == 1..NumCallers

\* AtomicUsize::fetch_add(1, SeqCst): the value stored; it wraps around.
fetch_add_saturating(x) == IF x = USIZE_MAX THEN USIZE_MAX ELSE x + 1
fetch_add_by_two(x) == (x + 2) % (USIZE_MAX + 1)
fetch_add(x) == (x + 1) % (USIZE_MAX + 1)

\* The exit test of the spin loop: `now_serving.load(SeqCst) != ticket` is false.
served_any(serving, t) == TRUE
served_at_least(serving, t) == serving >= t
served(serving, t) == serving = t

Remove1(seq, p) == SelectSeq(seq, LAMBDA q : q # p)

\* lock(), first statement: draw a ticket.
LockTicket(p) ==
    /\ pc[p] = "idle"
    /\ ticket' = [ticket EXCEPT ![p] = next_ticket]
    /\ next_ticket' = fetch_add(next_ticket)
    /\ last_ticket' = next_ticket
    /\ order' = Append(order, p)
    /\ pc' = [pc EXCEPT ![p] = "spin"]
    /\ UNCHANGED now_serving
    /\ UNCHANGED <<range_vars, uefi_vars, app_vars>>

\* lock(), the spin loop sees its ticket served and returns the guard.
\* (A load that sees another value leaves the state unchanged.)
LockGrant(p) ==
    /\ pc[p] = "spin"
    /\ served(now_serving, ticket[p])
    /\ pc' = [pc EXCEPT ![p] = "cs"]
    /\ order' = Remove1(order, p)
    /\ UNCHANGED <<next_ticket, now_serving, ticket, last_ticket>>
    /\ UNCHANGED <<range_vars, uefi_vars, app_vars>>

\* TicketMutexGuard::drop
GuardDropNoRelease(p) ==
    /\ pc[p] = "cs"
    /\ pc' = [pc EXCEPT ![p] = "idle"]
    /\ UNCHANGED <<next_ticket, now_serving, ticket, order, last_ticket>>
    /\ UNCHANGED <<range_vars, uefi_vars, app_vars>>

GuardDrop(p) ==
    /\ pc[p] = "cs"
    /\ now_serving' = fetch_add(now_serving)
    /\ pc' = [pc EXCEPT ![p] = "idle"]
    /\ UNCHANGED <<next_ticket, ticket, order, last_ticket>>
    /\ UNCHANGED <<range_vars, uefi_vars, app_vars>>

(***************************************************************************)
(* Vocabulary of the RangeSet properties (mathematical integers).          *)
(***************************************************************************)
\* Strictly ascending starts, and no two consecutive entries overlap or touch.
SortedNonAdjacent(rs) ==
    \A i \in 1..(Len(rs) - 1) :
        /\ rs[i].start < rs[i + 1].start
        /\ rs[i].end + 1 < rs[i + 1].start

Points(r) == r.start..r.end

\* The points covered by the set.
Covered(rs) == UNION {Points(rs[i]) : i \in 1..Len(rs)}

\* The sum of (end - start + 1) over the entries.
RECURSIVE SumOfSizes(_)
SumOfSizes(rs) ==
    IF rs = <<>> THEN 0
    ELSE (Head(rs).end - Head(rs).start + 1) + SumOfSizes(Tail(rs))

(***************************************************************************)
(* RangeSet operations as actions.  A panic halts the program.             *)
(***************************************************************************)
Insert(r) ==
    /\ ret # "panic"
    /\ LET res == insert(ranges, r) IN
        /\ ranges' = res.ranges
        /\ ret' = res.ret
    /\ op' = "insert"
    /\ hits' = Cardinality({i \in 1..Len(ranges) : overlaps(ranges[i], r)})
    /\ pre_ok' = SortedNonAdjacent(ranges)
    /\ size_ret' = 0
    /\ UNCHANGED overflow_checks
    /\ UNCHANGED <<mutex_vars, uefi_vars, app_vars>>

Remove(r) ==
    /\ ret # "panic"
    /\ LET res == remove(ranges, r) IN
        /\ ranges' = res.ranges
        /\ ret' = res.ret
    /\ op' = "remove"
    /\ hits' = Cardinality({i \in 1..Len(ranges) : overlaps(ranges[i], r)})
    /\ pre_ok' = SortedNonAdjacent(ranges)
    /\ size_ret' = 0
    /\ UNCHANGED overflow_checks
    /\ UNCHANGED <<mutex_vars, uefi_vars, app_vars>>

Size ==
    /\ ret # "panic"
    /\ LET res == size(ranges) IN
        /\ size_ret' = res.val
        /\ ret' = res.ret
    /\ op' = "size"
    /\ hits' = 0
    /\ pre_ok' = SortedNonAdjacent(ranges)
    /\ UNCHANGED <<overflow_checks, ranges>>
    /\ UNCHANGED <<mutex_vars, uefi_vars, app_vars>>

(***************************************************************************)
(* uefi crate: EFI_STATUS decoding (src/uefi/src/lib.rs)                   *)
(***************************************************************************)
\* The values of the scaled usize.
StatusWords == 0..(2 ^ STATUS_BITS - 1)

\* `status.0 >> (usize::BITS - 1)`: the top bit of the word.
top_bit(w) == w \div (2 ^ (STATUS_BITS - 1))

\* `status.0 & (usize::MAX >> 1)`: the word with its top bit cleared.
low_bits(w) == w % (2 ^ (STATUS_BITS - 1))

\* The match of StatusWarning::try_from.
status_warning_match(code) ==
    CASE code = 1 -> [name |-> "UnknownGlyph", code |-> -1]
      [] code = 2 -> [name |-> "DeleteFailure", code |-> -1]
      [] code = 3 -> [name |-> "WriteFailure", code |-> -1]
      [] code = 4 -> [name |-> "BufferTooSmall", code |-> -1]
      [] code = 5 -> [name |-> "StaleData", code |-> -1]
      [] code = 6 -> [name |-> "FileSystem", code |-> -1]
      [] code = 7 -> [name |-> "ResetRequired", code |-> -1]
      [] OTHER -> [name |-> "Unknown", code |-> code]

\* StatusWarning::try_from(EfiStatus)
status_warning_try_from(w) ==
    IF w = 0 \/ top_bit(w) = 1
    THEN [ok |-> FALSE, err |-> "InvalidStatusConversion"]
    ELSE [ok |-> TRUE, val |-> status_warning_match(w)]

\* The named arms of the match of StatusError::try_from.
status_error_name_contiguous(code) ==
    CASE code = 1 -> "LoadError"
      [] code = 2 -> "InvalidParameter"
      [] code = 3 -> "Unsupported"
      [] code = 4 -> "BadBufferSize"
      [] code = 5 -> "BufferTooSmall"
      [] code = 6 -> "NotReady"
      [] code = 7 -> "DeviceError"
      [] code = 8 -> "WriteProtected"
      [] code = 9 -> "OutOfResources"
      [] code = 10 -> "VolumeCorrupted"
      [] code = 11 -> "VolumeFull"
      [] code = 12 -> "NoMedia"
      [] code = 13 -> "MediaChanged"
      [] code = 14 -> "NotFound"
      [] code = 15 -> "AccessDenied"
      [] code = 16 -> "NoResponse"
      [] code = 17 -> "NoMapping"
      [] code = 18 -> "Timeout"
      [] code = 19 -> "NotStarted"
      [] code = 20 -> "AlreadyStarted"
      [] code = 21 -> "Aborted"
      [] code = 22 -> "IcmpError"
      [] code = 23 -> "TftpError"
      [] code = 24 -> "ProtocolError"
      [] code = 25 -> "IncompatibleVersion"
      [] code = 26 -> "SecurityViolation"
      [] code = 27 -> "CrcError"
      [] code = 28 -> "EndOfMedia"
      [] code = 29 -> "EndOfFile"
      [] code = 30 -> "InvalidLanguage"
      [] code = 31 -> "CompromisedData"
      [] code = 32 -> "IpAddressConflict"
      [] code = 33 -> "HttpError"
      [] OTHER -> "Unknown"
status_error_name(code) ==
    CASE code = 1 -> "LoadError"
      [] code = 2 -> "InvalidParameter"
      [] code = 3 -> "Unsupported"
      [] code = 4 -> "BadBufferSize"
      [] code = 5 -> "BufferTooSmall"
      [] code = 6 -> "NotReady"
      [] code = 7 -> "DeviceError"
      [] code = 8 -> "WriteProtected"
      [] code = 9 -> "OutOfResources"
      [] code = 10 -> "VolumeCorrupted"
      [] code = 11 -> "VolumeFull"
      [] code = 12 -> "NoMedia"
      [] code = 13 -> "MediaChanged"
      [] code = 14 -> "NotFound"
      [] code = 15 -> "AccessDenied"
      [] code = 16 -> "NoResponse"
      [] code = 17 -> "NoMapping"
      [] code = 18 -> "Timeout"
      [] code = 19 -> "NotStarted"
      [] code = 20 -> "AlreadyStarted"
      [] code = 21 -> "Aborted"
      [] code = 22 -> "IcmpError"
      [] code = 23 -> "TftpError"
      [] code = 24 -> "ProtocolError"
      [] code = 25 -> "IncompatibleVersion"
      [] code = 26 -> "SecurityViolation"
      [] code = 27 -> "CrcError"
      [] code = 28 -> "EndOfMedia"
      [] code = 31 -> "EndOfFile"
      [] code = 32 -> "InvalidLanguage"
      [] code = 33 -> "CompromisedData"
      [] code = 34 -> "IpAddressConflict"
      [] code = 35 -> "HttpError"
      [] OTHER -> "Unknown"

\* StatusError::try_from(EfiStatus).  The catch-all arm is
\* `_ => StatusError::Unknown(status.0)`: it carries the whole word.
status_error_try_from(w) ==
    IF w = 0 \/ top_bit(w) = 0
    THEN [ok |-> FALSE, err |-> "InvalidStatusConversion"]
    ELSE LET name == status_error_name(low_bits(w)) IN
         [ok |-> TRUE,
          val |-> [name |-> name, code |-> IF name = "Unknown" THEN w ELSE -1]]

\* Result::unwrap inside Status::from: an Err panics.
status_unwrap(kind, res) ==
    IF res.ok THEN [kind |-> kind, name |-> res.val.name, code |-> res.val.code]
    ELSE [kind |-> "panic", name |-> res.err, code |-> -1]

\* impl From<EfiStatus> for Status
status_from(w) ==
    IF w = 0 THEN [kind |-> "Success", name |-> "Success", code |-> -1]
    ELSE IF top_bit(w) = 0 THEN status_unwrap("Warning", status_warning_try_from(w))
    ELSE status_unwrap("Error", status_error_try_from(w))

\* A firmware call returned the word w and the caller decodes it.
StatusFrom(w) ==
    /\ status_word' = w
    /\ status' = status_from(w)
    /\ UNCHANGED <<range_vars, mutex_vars, table_vars, cfg_vars, gm_vars, crc_vars, app_vars>>

(***************************************************************************)
(* uefi crate: byte-level helpers (src/uefi/src/utils.rs)                  *)
(*                                                                         *)
(* Firmware memory is a sequence of bytes; the byte at offset off of the   *)
(* table is m[off + 1].  A u32 is the pair <<high 16 bits, low 16 bits>>.   *)
(***************************************************************************)
Byte == 0..255

read_u8(m, off) == m[off + 1]

\* ptr::read_unaligned of a little-endian u32 (used for the length fields).
read_u32(m, off) ==
    m[off + 1] + 256 * m[off + 2] + 65536 * m[off + 3] + 16777216 * m[off + 4]

\* The bytes m[off .. off + n - 1].
read_bytes(m, off, n) == SubSeq(m, off + 1, off + n)

\* Bitwise exclusive or of two n-bit numbers.
RECURSIVE xor_bits(_, _, _)
xor_bits(a, b, n) ==
    IF n = 0 THEN 0
    ELSE ((a + b) % 2) + 2 * xor_bits(a \div 2, b \div 2, n - 1)

xor32(x, y) == <<xor_bits(x[1], y[1], 16), xor_bits(x[2], y[2], 16)>>

\* x >> k for k in 0..16
shr32(x, k) ==
    <<x[1] \div (2 ^ k), (x[1] % (2 ^ k)) * (2 ^ (16 - k)) + x[2] \div (2 ^ k)>>

\* u16 with its bits in reverse order.
RECURSIVE reverse_bits16(_, _, _)
reverse_bits16(a, n, acc) ==
    IF n = 0 THEN acc ELSE reverse_bits16(a \div 2, n - 1, 2 * acc + (a % 2))

\* u32::reverse_bits
reverse_bits(x) == <<reverse_bits16(x[2], 16, 0), reverse_bits16(x[1], 16, 0)>>

\* 0x04c11db7u32.reverse_bits()
BIT_REFLECTED_SEED == reverse_bits(<<1217, 7607>>)

\* The inner loop of build_crc32_table: n more rounds on item.
RECURSIVE crc32_table_rounds(_, _)
crc32_table_rounds(item, n) ==
    IF n = 0 THEN item
    ELSE crc32_table_rounds(
             IF item[2] % 2 # 0 THEN xor32(shr32(item, 1), BIT_REFLECTED_SEED)
             ELSE shr32(item, 1),
             n - 1)

build_crc32_table == [i \in 0..255 |-> crc32_table_rounds(<<0, i>>, 8)]

\* One iteration of the loop of crc32, without the shift of the old value.
crc32_step_unshifted(crc, b) ==
    LET idx == xor_bits(crc[2] % 256, b, 8) IN
    xor32(build_crc32_table[idx], crc)

\* One iteration of the loop of crc32.
crc32_step(crc, b) ==
    LET idx == xor_bits(crc[2] % 256, b, 8) IN
    xor32(build_crc32_table[idx], shr32(crc, 8))

\* The loop of crc32 over the offsets lo .. hi - 1, in ascending order (the
\* iterations are grouped in halves to keep the evaluation shallow).
RECURSIVE crc32_loop(_, _, _, _)
crc32_loop(m, lo, hi, crc) ==
    IF lo >= hi THEN crc
    ELSE IF hi = lo + 1 THEN crc32_step(crc, read_u8(m, lo))
    ELSE LET mid == (lo + hi) \div 2
             left == crc32_loop(m, lo, mid, crc)
         IN  \* the test evaluates the first half before the second starts
             IF Len(left) = 2 THEN crc32_loop(m, mid, hi, left) ELSE left

crc32(m, len) == xor32(crc32_loop(m, 0, len, <<65535, 65535>>), <<65535, 65535>>)

\* crc32 called on a buffer.
Crc32Call ==
    /\ crc_ret = <<>>
    /\ crc_ret' = crc32(crc_buf, Len(crc_buf))
    /\ UNCHANGED crc_buf
    /\ UNCHANGED <<range_vars, mutex_vars, status_vars, table_vars, cfg_vars, gm_vars, app_vars>>

\* The loop of add_bytes over the offsets lo .. hi - 1, in ascending order.
RECURSIVE add_bytes_loop(_, _, _, _)
add_bytes_loop(m, lo, hi, checksum) ==
    IF lo >= hi THEN checksum
    ELSE IF hi = lo + 1 THEN (checksum + read_u8(m, lo)) % 256
    ELSE LET mid == (lo + hi) \div 2
             left == add_bytes_loop(m, lo, mid, checksum)
         IN  IF left \in Byte THEN add_bytes_loop(m, mid, hi, left) ELSE left

add_bytes(m, len) == add_bytes_loop(m, 0, len, 0)

(***************************************************************************)
(* uefi crate: UEFI tables (src/uefi/src/lib.rs)                           *)
(***************************************************************************)
\* A constructor's outcome: the Result, the checksum computations made, and
\* the entries of the value built.
TblOk(view, sums) == [ret |-> "Ok", sums |-> sums, view |-> view]
TblErr(e, sums) == [ret |-> e, sums |-> sums, view |-> <<>>]

\* 0x5453595320494249 in memory (little endian): "IBI SYST"
EFI_SYSTEM_TABLE_SIGNATURE == <<73, 66, 73, 32, 83, 89, 83, 84>>
\* 0x56524553544f4f42 in memory (little endian): "BOOTSERV"
EFI_BOOT_SERVICES_SIGNATURE == <<66, 79, 79, 84, 83, 69, 82, 86>>

\* size_of::<EfiSystemTable>() and size_of::<EfiBootServices>() (repr(C), 64 bit)
EFI_SYSTEM_TABLE_SIZE == 120
EFI_BOOT_SERVICES_SIZE == 376

\* Offsets of the padding bytes of a table structure: EfiSystemTable has four
\* after firmware_revision, EfiBootServices has none.
padding(nbytes) == IF nbytes = EFI_SYSTEM_TABLE_SIZE THEN 36..39 ELSE {}

\* EfiTableHeader.crc32 (offset 16) as a u32.
hdr_crc32(m) == <<m[19] + 256 * m[20], m[17] + 256 * m[18]>>

\* SystemTable::new and BootServices::new.  The checksum is taken over a clone
\* of the structure read, with hdr.crc32 zeroed; the padding bytes of a clone
\* are indeterminate: pad is the value they happen to hold.
efi_table_new_crc_first(m, signature, nbytes, pad) ==
    LET copy == [i \in 1..nbytes |->
                   IF i \in 17..20 THEN 0
                   ELSE IF (i - 1) \in padding(nbytes) THEN pad
                   ELSE m[i]]
    IN  IF crc32(copy, nbytes) # hdr_crc32(m) THEN TblErr("InvalidCheckSum", 1)
        ELSE IF read_bytes(m, 0, 8) # signature THEN TblErr("InvalidSignature", 1)
        ELSE TblOk(<<>>, 1)
efi_table_new(m, signature, nbytes, pad) ==
    IF read_bytes(m, 0, 8) # signature THEN TblErr("InvalidSignature", 0)
    ELSE LET copy == [i \in 1..nbytes |->
                        IF i \in 17..20 THEN 0
                        ELSE IF (i - 1) \in padding(nbytes) THEN pad
                        ELSE m[i]]
         IN  IF crc32(copy, nbytes) # hdr_crc32(m) THEN TblErr("InvalidCheckSum", 1)
             ELSE TblOk(<<>>, 1)

(***************************************************************************)
(* uefi crate: ACPI tables (src/uefi/src/acpi.rs)                          *)
(***************************************************************************)
\* b"RSD PTR ", b"XSDT", b"APIC"
ACPI_RSDP_SIGNATURE == <<82, 83, 68, 32, 80, 84, 82, 32>>
XSDT_SIGNATURE == <<88, 83, 68, 84>>
MADT_SIGNATURE == <<65, 80, 73, 67>>

\* size_of::<AcpiRsdp20>() and size_of::<AcpiSdtHeader>() (both packed)
ACPI_RSDP_SIZE == 36
ACPI_SDT_SIZE == 36

\* The values of the scaled usize in which lengths are computed.
LengthModulus == 2 ^ LENGTH_BITS

\* Rsdp20::new.  The structure is read into a local and the sum is taken over
\* `length` bytes starting at that local: the bytes past its 36 are whatever
\* follows it on the stack, `stack`.
rsdp20_new_checksum_first(m, stack) ==
    LET rsdp20 == read_bytes(m, 0, ACPI_RSDP_SIZE) IN
    IF read_bytes(rsdp20, 0, 8) # ACPI_RSDP_SIGNATURE THEN TblErr("InvalidSignature", 0)
    ELSE IF add_bytes(rsdp20 \o stack, read_u32(rsdp20, 20)) # 0
         THEN TblErr("InvalidCheckSum", 1)
    ELSE IF read_u8(rsdp20, 15) < 2 THEN TblErr("InvalidRevision", 1)
    ELSE TblOk(<<>>, 1)
rsdp20_new(m, stack) ==
    LET rsdp20 == read_bytes(m, 0, ACPI_RSDP_SIZE) IN
    IF read_bytes(rsdp20, 0, 8) # ACPI_RSDP_SIGNATURE THEN TblErr("InvalidSignature", 0)
    ELSE IF read_u8(rsdp20, 15) < 2 THEN TblErr("InvalidRevision", 0)
    ELSE IF add_bytes(rsdp20 \o stack, read_u32(rsdp20, 20)) # 0
         THEN TblErr("InvalidCheckSum", 1)
    ELSE TblOk(<<>>, 1)

\* The extent of the sum of AcpiSdtHeader::new.
sdt_sum(m) == add_bytes(m, read_u32(m, 4))

\* AcpiSdtHeader::new
acpi_sdt_header_new_unsummed(m, signature) ==
    IF read_bytes(m, 0, 4) # signature THEN TblErr("InvalidSignature", 0)
    ELSE TblOk(<<>>, 0)
acpi_sdt_header_new(m, signature) ==
    IF read_bytes(m, 0, 4) # signature THEN TblErr("InvalidSignature", 0)
    ELSE IF sdt_sum(m) # 0 THEN TblErr("InvalidCheckSum", 1)
    ELSE TblOk(<<>>, 1)

ACPI_XSDT_ENTRIES_LEN == 32

\* The address of entry i (from 0) of an XSDT, relative to the table.
xsdt_entry_offset_packed(i) == ACPI_SDT_SIZE + i * 4
xsdt_entry_offset(i) == ACPI_SDT_SIZE + i * 8

\* Xsdt::new.  An entry is kept as the eight bytes of its u64.
xsdt_new(m) ==
    LET hdr == acpi_sdt_header_new(m, XSDT_SIGNATURE)
        length == read_u32(m, 4)
        entries_length == (length - ACPI_SDT_SIZE) % LengthModulus
        num_entries == entries_length \div 8
    IN  IF hdr.ret # "Ok" THEN hdr
        ELSE IF panics(length < ACPI_SDT_SIZE) THEN TblErr("panic", 1)
        ELSE IF entries_length % 8 # 0 THEN TblErr("InvalidAcpiData", 1)
        ELSE IF num_entries > ACPI_XSDT_ENTRIES_LEN THEN TblErr("BufferTooSmall", 1)
        ELSE TblOk([i \in 1..num_entries |-> read_bytes(m, xsdt_entry_offset(i - 1), 8)], 1)

ACPI_MADT_FIELDS_SIZE == 8
ACPI_MADT_ENTRIES_LEN == 256

\* `num_lapic_entries >= ACPI_MADT_ENTRIES_LEN`
madt_full_never(n) == FALSE
madt_full(n) == n >= ACPI_MADT_ENTRIES_LEN

\* The MadtLapic built from the AcpiMadtLapic at offset off: proc_uid,
\* apic_id and the four bytes of flags.
madt_lapic(m, off) ==
    [proc_uid |-> read_u8(m, off + 2),
     apic_id |-> read_u8(m, off + 3),
     flags |-> read_bytes(m, off + 4, 4)]

(***************************************************************************)
(* The tables firmware hands over.                                         *)
(***************************************************************************)
le16(n) == <<n % 256, n \div 256>>
le32(x) == le16(x[2]) \o le16(x[1])

Fill(n, b) == [i \in 1..n |-> b]

\* The first byte of a signature, right or wrong.
Signed(signature, sig_ok) ==
    IF sig_ok THEN signature ELSE <<(signature[1] + 1) % 256>> \o Tail(signature)

\* A UEFI table of `nbytes` bytes: header (signature, revision, header_size,
\* crc32, reserved) and a body of bytes `fill`, its CRC32 right or wrong.
EfiTableImage(signature, nbytes, sig_ok, crc_ok, fill) ==
    LET hdr(crc) == Signed(signature, sig_ok) \o <<70, 0, 2, 0>> \o le32(<<0, nbytes>>)
                    \o crc \o <<0, 0, 0, 0>>
        zeroed == hdr(<<0, 0, 0, 0>>) \o Fill(nbytes - 24, fill)
        crc == crc32(zeroed, nbytes)
        stored == IF crc_ok THEN crc ELSE <<crc[1], (crc[2] + 1) % 65536>>
    IN  hdr(le32(stored)) \o Fill(nbytes - 24, fill)

\* m with the byte at offset off set so that the first len bytes sum to
\* delta modulo 256 (as they are, when off is outside them).
WithSum(m, off, len, delta) ==
    IF off >= len THEN m
    ELSE LET zeroed == [m EXCEPT ![off + 1] = 0] IN
         [m EXCEPT ![off + 1] = (delta - add_bytes(zeroed, len)) % 256]

\* An RSDP: signature, checksum, oem_id, revision, rsdt_addr, length,
\* xsdt_addr, ext_checksum, reserved; then the firmware memory that follows it.
RsdpImage(sig_ok, revision, length, delta, trail) ==
    LET raw == Signed(ACPI_RSDP_SIGNATURE, sig_ok) \o <<0>> \o Fill(6, 69)
               \o <<revision>> \o <<0, 16, 0, 0>> \o le32(<<0, length>>)
               \o <<0, 32, 0, 0, 0, 0, 0, 0>> \o <<0>> \o <<0, 0, 0>>
               \o Fill(8, trail)
    IN  WithSum(raw, IF length > 32 THEN 32 ELSE 8, length, delta)

\* A system description table: the 36-byte header, a body, and the firmware
\* memory that follows the table.
SdtImage(signature, sig_ok, length, delta, body, trail) ==
    LET raw == Signed(signature, sig_ok) \o le32(<<0, length>>) \o <<1, 0>>
               \o Fill(26, 69) \o body \o Fill(8, trail)
    IN  WithSum(raw, 9, length, delta)

\* The body of an XSDT of the given declared length: its entries.
XsdtBody(length, p) ==
    [i \in 1..(max(length, ACPI_SDT_SIZE) - ACPI_SDT_SIZE) |-> (i * p) % 256]

\* The table of an image lies in the modelled memory, reads of a record that
\* starts before its declared end included.
InMemory(m) == m[7] = 0 /\ m[8] = 0 /\ read_u32(m, 4) + 7 <= Len(m)

\* MADT records: a local APIC, an I/O APIC, an interrupt source override, a
\* two-byte record of another type, and records whose length byte is 0.
Lapic(uid) == <<0, 8, uid, uid + 16, 1, 0, 0, 0>>
IoApic == <<1, 12, 2, 0, 0, 0, 192, 254, 0, 0, 0, 0>>
Override == <<2, 10, 0, 0, 2, 0, 0, 0, 0, 0>>
MadtRecords == {Lapic(0), Lapic(1), IoApic, Override, <<5, 2>>, <<0, 0, 9, 9, 1, 0, 0, 0>>, <<4, 0>>}

RECURSIVE Flatten(_)
Flatten(recs) == IF recs = <<>> THEN <<>> ELSE Head(recs) \o Flatten(Tail(recs))

\* The body of a MADT: lapic_addr, flags, and the records.
MadtBody(recs) == <<0, 0, 224, 254, 1, 0, 0, 0>> \o Flatten(recs)

\* A body of n local APIC records.
MadtBodyOfLapics(n) ==
    <<0, 0, 224, 254, 1, 0, 0, 0>>
    \o [k \in 1..(8 * n) |-> Lapic(((k - 1) \div 8) % 240)[((k - 1) % 8) + 1]]

MadtImage(sig_ok, delta, body, trail) ==
    SdtImage(MADT_SIGNATURE, sig_ok, ACPI_SDT_SIZE + Len(body), delta, body, trail)

\* The largest number of records of the bodies built from MadtRecords.
MaxRecords == 2

RecordLists == UNION {[1..n -> MadtRecords] : n \in 0..MaxRecords}

\* Declared lengths: 0, below the header size, no entry, a ragged entry, one and
\* two entries, the capacity, one more.
XsdtLengths == {0, 28, 33, 36, 37, 44, 52, 292, 300}
\* Declared lengths of a MADT that end before or inside its fields.
ShortMadtLengths == {0, 36, 40}
\* Last records: cut after the type byte, a local APIC cut after 4 bytes, and
\* one whose length byte points far past the end of the table.
LastRecords == {<<3>>, <<0, 8, 7, 23>>, <<5, 200>>}
RsdpLengths == {20, 36, 40, 44}
Deltas == {0, 1}
Trails == {0, 255}
Fills == {0, 1, 90}

(***************************************************************************)
(* The table constructors as actions.                                      *)
(***************************************************************************)
\* The program is sequential, and a panic halts it.
Idle == tbl_ret \notin {"running", "panic"}

\* The modelled memory holds the n bytes a constructor reads first.
Readable(n) == Len(mem) >= n

Called(kind, res) ==
    /\ tbl_kind' = kind
    /\ tbl_ret' = res.ret
    /\ tbl_sums' = res.sums
    /\ tbl_view' = res.view
    /\ madt_ptr' = 0
    /\ UNCHANGED <<mem, tampered>>
    /\ UNCHANGED <<range_vars, mutex_vars, status_vars, cfg_vars, gm_vars, crc_vars, app_vars>>

SystemTableNew(pad) ==
    /\ Idle
    /\ Readable(EFI_SYSTEM_TABLE_SIZE)
    /\ Called("SystemTable",
              efi_table_new(mem, EFI_SYSTEM_TABLE_SIGNATURE, EFI_SYSTEM_TABLE_SIZE, pad))

BootServicesNew ==
    /\ Idle
    /\ Readable(EFI_BOOT_SERVICES_SIZE)
    /\ Called("BootServices",
              efi_table_new(mem, EFI_BOOT_SERVICES_SIGNATURE, EFI_BOOT_SERVICES_SIZE, 0))

Rsdp20New(stack) ==
    /\ Idle
    /\ Readable(ACPI_RSDP_SIZE)
    /\ Called("Rsdp20", rsdp20_new(mem, stack))

XsdtNew ==
    /\ Idle
    /\ Readable(ACPI_SDT_SIZE)
    /\ Called("Xsdt", xsdt_new(mem))

\* The offsets one pass of the loop body of Madt::new reads, with ptr at off
\* and n entries collected: the type byte, the length byte and, for type 0
\* with room left, the AcpiMadtLapic.
madt_reads(m, off, n) ==
    {off, off + 1} \cup
    (IF read_u8(m, off) = 0 /\ ~madt_full(n) THEN off..(off + 7) ELSE {})

\* Madt::new up to the record loop: header, fields, ptr and end.
MadtNew ==
    /\ Idle
    /\ Readable(ACPI_SDT_SIZE)
    /\ LET hdr == acpi_sdt_header_new(mem, MADT_SIGNATURE) IN
         IF hdr.ret # "Ok" THEN Called("Madt", hdr)
         ELSE /\ tbl_kind' = "Madt"
              /\ tbl_ret' = "running"
              /\ tbl_sums' = hdr.sums
              /\ tbl_view' = <<>>
              /\ madt_ptr' = ACPI_SDT_SIZE + ACPI_MADT_FIELDS_SIZE
              /\ UNCHANGED <<mem, tampered>>
              /\ UNCHANGED <<range_vars, mutex_vars, status_vars, cfg_vars, gm_vars, crc_vars, app_vars>>

\* Madt::new, one test of `while ptr < end` and, when it holds, one pass of
\* the body.  The entries collected so far are tbl_view.
MadtStep ==
    /\ tbl_kind = "Madt"
    /\ tbl_ret = "running"
    /\ LET end == read_u32(mem, 4)
           ty == read_u8(mem, madt_ptr)
           length == read_u8(mem, madt_ptr + 1)
       IN  IF ~(madt_ptr < end)
           THEN tbl_ret' = "Ok" /\ UNCHANGED <<tbl_view, madt_ptr>>
           ELSE IF ty = 0 /\ madt_full(Len(tbl_view))
           THEN tbl_ret' = "BufferTooSmall" /\ tbl_view' = <<>> /\ UNCHANGED madt_ptr
           ELSE /\ tbl_view' = IF ty = 0 THEN Append(tbl_view, madt_lapic(mem, madt_ptr))
                                ELSE tbl_view
                /\ madt_ptr' = madt_ptr + length
                /\ UNCHANGED tbl_ret
    /\ UNCHANGED <<mem, tbl_kind, tbl_sums, tampered>>
    /\ UNCHANGED <<range_vars, mutex_vars, status_vars, cfg_vars, gm_vars, crc_vars, app_vars>>

\* Firmware memory changes in one byte after the table in it validated; the
\* table is handed to the same constructor again.
Tamper(off, v) ==
    /\ tbl_kind = "Xsdt"
    /\ tbl_ret = "Ok"
    /\ tampered = -1
    /\ off < Len(mem)
    /\ v # read_u8(mem, off)
    /\ LET image == [mem EXCEPT ![off + 1] = v] IN
         /\ image[7] = 0 /\ image[8] = 0 /\ read_u32(image, 4) <= Len(image)
         /\ mem' = image
         /\ LET res == xsdt_new(image) IN
              /\ tbl_ret' = res.ret
              /\ tbl_sums' = res.sums
              /\ tbl_view' = res.view
    /\ tampered' = off
    /\ UNCHANGED <<tbl_kind, madt_ptr>>
    /\ UNCHANGED <<range_vars, mutex_vars, status_vars, cfg_vars, gm_vars, crc_vars, app_vars>>

(***************************************************************************)
(* uefi crate: configuration tables (src/uefi/src/lib.rs)                  *)
(***************************************************************************)
\* EfiGuid; data1 is a u32, kept as <<high 16 bits, low 16 bits>>.
EfiGuid(d1, d2, d3, d4) == [data1 |-> d1, data2 |-> d2, data3 |-> d3, data4 |-> d4]

\* 8868e871-e4f1-11d3-bc22-0080c73c8881
EFI_ACPI_20_TABLE_GUID ==
    EfiGuid(<<34920, 59505>>, 58609, 4563, <<188, 34, 0, 128, 199, 60, 136, 129>>)

\* EfiConfigurationTable::default()
EfiConfigurationTable_default_acpi ==
    [vendor_guid |-> EFI_ACPI_20_TABLE_GUID, vendor_table |-> 0]
EfiConfigurationTable_default ==
    [vendor_guid |-> EfiGuid(<<0, 0>>, 0, 0, <<0, 0, 0, 0, 0, 0, 0, 0>>), vendor_table |-> 0]

EFI_CONFIGURATION_TABLES_LEN == 32

\* ConfigurationTables::new: fw is firmware memory at config_tables_ptr.
configuration_tables_new(fw, num_entries) ==
    IF num_entries > EFI_CONFIGURATION_TABLES_LEN
    THEN [ret |-> "BufferTooSmall", tables |-> <<>>]
    ELSE [ret |-> "Ok",
          tables |-> [i \in 1..EFI_CONFIGURATION_TABLES_LEN |->
                        IF i <= num_entries THEN fw[i]
                        ELSE EfiConfigurationTable_default]]

\* The loop of acpi_rsdp20_ptr from slot i on: it visits every slot of the array.
RECURSIVE acpi_rsdp20_ptr_loop(_, _)
acpi_rsdp20_ptr_loop(tables, i) ==
    IF i > Len(tables) THEN [ok |-> FALSE, err |-> "NotFound"]
    ELSE IF tables[i].vendor_guid = EFI_ACPI_20_TABLE_GUID
    THEN [ok |-> TRUE, val |-> tables[i].vendor_table]
    ELSE acpi_rsdp20_ptr_loop(tables, i + 1)

\* ConfigurationTables::acpi_rsdp20_ptr
acpi_rsdp20_ptr(tables) == acpi_rsdp20_ptr_loop(tables, 1)

\* Firmware entries: the ACPI 2.0 table, the ACPI 1.0 table
\* (eb9d2d30-2d88-11d3-9a16-0090273fc14d), a GUID one byte off the ACPI 2.0
\* one, and an all-zero entry.  Entry i points to 4096 * i.
Entry(guid, i) == [vendor_guid |-> guid, vendor_table |-> 4096 * i]
FirmwareGuids ==
    {EFI_ACPI_20_TABLE_GUID,
     EfiGuid(<<60317, 11568>>, 11656, 4563, <<154, 22, 0, 144, 39, 63, 193, 77>>),
     EfiGuid(<<34920, 59505>>, 58609, 4563, <<188, 34, 0, 128, 199, 60, 136, 128>>),
     EfiGuid(<<0, 0>>, 0, 0, <<0, 0, 0, 0, 0, 0, 0, 0>>)}

\* Arrays of up to 2 entries of every kind, and arrays of 34 entries with the
\* ACPI 2.0 GUID at the positions acpi and the ACPI 1.0 GUID elsewhere.
FirmwareTables ==
    UNION {{[i \in 1..n |-> Entry(g[i], i)] : g \in [1..n -> FirmwareGuids]} : n \in 0..2}
    \cup
    {[i \in 1..34 |-> Entry(IF i \in acpi THEN EFI_ACPI_20_TABLE_GUID
                            ELSE CHOOSE g \in FirmwareGuids : g.data2 = 11656, i)] :
        acpi \in SUBSET {1, 2, 32, 33}}

ConfigurationTablesNew(num_entries) ==
    /\ num_entries <= EFI_CONFIGURATION_TABLES_LEN => num_entries <= Len(cfg_fw)
    /\ LET res == configuration_tables_new(cfg_fw, num_entries) IN
         /\ cfg_ret' = res.ret
         /\ cfg_tables' = res.tables
    /\ cfg_num' = num_entries
    /\ cfg_ptr' = [ok |-> FALSE, err |-> "none"]
    /\ UNCHANGED cfg_fw
    /\ UNCHANGED <<range_vars, mutex_vars, status_vars, table_vars, gm_vars, crc_vars, app_vars>>

AcpiRsdp20Ptr ==
    /\ cfg_ret = "Ok"
    /\ cfg_ptr' = acpi_rsdp20_ptr(cfg_tables)
    /\ UNCHANGED <<cfg_fw, cfg_num, cfg_tables, cfg_ret>>
    /\ UNCHANGED <<range_vars, mutex_vars, status_vars, table_vars, gm_vars, crc_vars, app_vars>>

(***************************************************************************)
(* uefi crate: get_available_memory (src/uefi/src/mem.rs)                  *)
(*                                                                         *)
(* The memory map buffer is a sequence of slots of the size of an          *)
(* EfiMemoryDescriptor; memory_map_size and descriptor_size count slots.   *)
(***************************************************************************)
\* MemoryType::from and the match of get_available_memory: the usable types.
is_available(memory_type) == memory_type \in {3, 4, 7, 9}

\* The range of a usable descriptor: Range::new(start, start + pages * 0x1000 - 1),
\* in u64 arithmetic.
descriptor_range(d) ==
    LET start == d.physical_start
        product == d.number_of_pages * PAGE_SIZE
        bytes == product % (U64_MAX + 1)
        sum == (start + bytes) % (U64_MAX + 1)
        end == (sum - 1) % (U64_MAX + 1)
    IN  IF panics(product > U64_MAX \/ start + bytes > U64_MAX \/ sum = 0)
        THEN [ret |-> "panic"]
        ELSE IF start <= end THEN [ret |-> "Ok", range |-> [start |-> start, end |-> end]]
        ELSE [ret |-> "InvalidBoundaries"]

\* get_available_memory up to the descriptor loop: the firmware call and the
\* match on its status.
GetMemoryMap ==
    /\ gm_pc = "idle"
    /\ LET st == status_from(gm_fw.status) IN
         IF st.kind = "Success"
         THEN gm_pc' = "walk" /\ UNCHANGED gm_result
         ELSE gm_pc' = "done" /\ gm_result' = st.kind
    /\ gm_idx' = 0
    /\ gm_ranges' = <<>>
    /\ fw_calls' = Append(fw_calls, [call |-> "GetMemoryMap", map_key |-> gm_fw.map_key])
    /\ UNCHANGED <<gm_fw, gm_key>>
    /\ UNCHANGED <<range_vars, mutex_vars, status_vars, table_vars, cfg_vars, crc_vars, app_vars>>

Return(result, key) ==
    /\ gm_pc' = "done"
    /\ gm_result' = result
    /\ gm_key' = key
    /\ UNCHANGED <<gm_idx, gm_ranges>>

\* core::ptr::read of the descriptor in slot `slot` (0-based) of memory_map,
\* which starts as [0u8; BUFFER_SIZE] and holds what firmware wrote.
read_descriptor(fw, slot) ==
    IF slot < Len(fw.map) THEN fw.map[slot + 1]
    ELSE [memory_type |-> 0, physical_start |-> 0, number_of_pages |-> 0]

\* usize arithmetic of the loop: idx + 1 and (idx + 1) * descriptor_size.
idx_next(idx) == (idx + 1) % (USIZE_MAX + 1)
walk_bound(idx, descriptor_size) == (idx_next(idx) * descriptor_size) % (USIZE_MAX + 1)
walk_overflows(idx, descriptor_size) ==
    idx + 1 > USIZE_MAX \/ idx_next(idx) * descriptor_size > USIZE_MAX

\* One test of the loop condition and, when it holds, one pass of the body.
WalkStep ==
    /\ gm_pc = "walk"
    /\ IF panics(walk_overflows(gm_idx, gm_fw.descriptor_size))
       THEN Return("panic", -1)
       ELSE IF ~(walk_bound(gm_idx, gm_fw.descriptor_size) <= gm_fw.memory_map_size)
       THEN Return("Ok", gm_fw.map_key)
       ELSE LET descriptor ==
                    read_descriptor(gm_fw, (gm_idx * gm_fw.descriptor_size) % (USIZE_MAX + 1))
                r == descriptor_range(descriptor)
                ins == insert(gm_ranges, r.range)
            IN  IF ~is_available(descriptor.memory_type)
                THEN /\ gm_idx' = idx_next(gm_idx)
                     /\ UNCHANGED <<gm_pc, gm_ranges, gm_result, gm_key>>
                ELSE IF r.ret # "Ok" THEN Return(r.ret, -1)
                ELSE IF ins.ret # "Ok" THEN Return(ins.ret, -1)
                ELSE /\ gm_ranges' = ins.ranges
                     /\ gm_idx' = idx_next(gm_idx)
                     /\ UNCHANGED <<gm_pc, gm_result, gm_key>>
    /\ UNCHANGED <<gm_fw, fw_calls>>
    /\ UNCHANGED <<range_vars, mutex_vars, status_vars, table_vars, cfg_vars, crc_vars, app_vars>>

\* The descriptors firmware may write, and its answers.
Descriptors ==
    [memory_type : {1, 3, 4, 7, 9}, physical_start : U64, number_of_pages : 0..MaxPages]

MemoryMaps == UNION {[1..n -> Descriptors] : n \in 0..MaxSlots}

FirmwareAnswers ==
    {[status |-> st, map |-> m, memory_map_size |-> Len(m),
      descriptor_size |-> ds, map_key |-> 3] :
        st \in {0, 1, 2 ^ (STATUS_BITS - 1) + 5}, m \in MemoryMaps, ds \in {1, 2}}

(***************************************************************************)
(* expos crate: efi_main (src/expos/src/main.rs)                           *)
(*                                                                         *)
(* A failed unwrap panics; the panic handler halts the machine.            *)
(***************************************************************************)
\* Lines 27-41: init_serial and the unwraps of the table constructors and of
\* boot_services(); none of them calls a boot service.  ok: all returned Ok.
EfiMainTables(ok) ==
    /\ boot_pc = "start"
    /\ boot_pc' = IF ok THEN "memory" ELSE "panic"
    /\ UNCHANGED <<exit_status, con_vars>>
    /\ UNCHANGED <<range_vars, mutex_vars, uefi_vars>>

\* Lines 42-43: get_available_memory runs (GetMemoryMap, WalkStep) ...
InGetAvailableMemory == boot_pc = "memory" /\ gm_pc # "done"

\* ... and its result is unwrapped.
UnwrapAvailableMemory ==
    /\ boot_pc = "memory"
    /\ gm_pc = "done"
    /\ boot_pc' = IF gm_result = "Ok" THEN "exit" ELSE "panic"
    /\ UNCHANGED <<exit_status, con_vars>>
    /\ UNCHANGED <<range_vars, mutex_vars, uefi_vars>>

\* exit_boot_services, taking a warning for success.
exit_boot_services_lenient(st) == IF status_from(st).kind = "Error" THEN "Error" ELSE "Ok"

\* BootServices::exit_boot_services(image_handle, map_key): the status of
\* the firmware call, decoded.
exit_boot_services(st) == IF status_from(st).kind = "Success" THEN "Ok" ELSE status_from(st).kind

\* Lines 46-48: exit_boot_services(image_handle, map_key).unwrap()
ExitBootServices ==
    /\ boot_pc = "exit"
    /\ fw_calls' = Append(fw_calls, [call |-> "ExitBootServices", map_key |-> gm_key])
    /\ boot_pc' = IF exit_boot_services(exit_status) = "Ok" THEN "os_main" ELSE "panic"
    /\ UNCHANGED <<exit_status, con_vars>>
    /\ UNCHANGED <<gm_fw, gm_pc, gm_idx, gm_ranges, gm_result, gm_key>>
    /\ UNCHANGED <<range_vars, mutex_vars, status_vars, table_vars, cfg_vars, crc_vars>>

\* Lines 59-65: os_main prints the boot information and ends in panic!("end").
OsMain ==
    /\ boot_pc = "os_main"
    /\ boot_pc' = "end"
    /\ UNCHANGED <<exit_status, con_vars>>
    /\ UNCHANGED <<range_vars, mutex_vars, uefi_vars>>

(***************************************************************************)
(* The serial console (src/expos/src/serial.rs, src/kernel/src/serial.rs,  *)
(* src/kernel/src/panic.rs).  COM1 is a TicketMutex<Option<SerialPort>>;   *)
(* its lock() and guard drop are LockTicket, LockGrant and GuardDrop.      *)
(* Caller 1 is the boot processor, caller 2 its panic handler.             *)
(***************************************************************************)
\* init_serial: SerialPort::new ran under the guard.  ok: the loopback test
\* passed.  unwraps: the result is unwrapped (kernel) and not `.ok()` (expos).
SerialPortNew(ok, unwraps) ==
    /\ k_pc = "init_serial"
    /\ pc[1] = "cs"
    /\ com1' = IF ok THEN "Some" ELSE "None"
    /\ k_pc' = IF ~ok /\ unwraps THEN "panic" ELSE "init_done"
    /\ UNCHANGED <<written, calls, com_out>>
    /\ UNCHANGED <<range_vars, mutex_vars, uefi_vars, boot_vars>>

\* The guard of init_serial goes out of scope.
InitSerialEnds == k_pc = "init_done" /\ written[1] = -1 /\ pc[1] = "cs"

\* init_serial has returned.
Returned == k_pc = "init_done" /\ ~InitSerialEnds

\* print!: write_fmt calls SerialWriter::write_str.
CallWriteStr(p) ==
    /\ pc[p] = "idle"
    /\ written[p] \in {-1, StrLen}
    /\ written' = [written EXCEPT ![p] = 0]
    /\ calls' = [calls EXCEPT ![p] = calls[p] + 1]
    /\ UNCHANGED <<com1, k_pc, com_out>>
    /\ UNCHANGED <<range_vars, mutex_vars, uefi_vars, boot_vars>>

\* write_str is at `COM1.lock()`.
AtLock(p) == written[p] = 0

\* The caller that writes owns the guard, or merely has a ticket.
writes_with_ticket(p) == pc[p] \in {"spin", "cs"}
writes_with_guard(p) == pc[p] = "cs"

\* serial.write(s): one write_u8.
WriteU8(p) ==
    /\ writes_with_guard(p)
    /\ com1 = "Some"
    /\ written[p] \in 0..(StrLen - 1)
    /\ com_out' = Append(com_out, [caller |-> p, call |-> calls[p], index |-> written[p] + 1])
    /\ written' = [written EXCEPT ![p] = written[p] + 1]
    /\ UNCHANGED <<com1, k_pc, calls>>
    /\ UNCHANGED <<range_vars, mutex_vars, uefi_vars, boot_vars>>

\* `if let Some(serial) = com.as_ref()` finds None.
WriteNone(p) ==
    /\ pc[p] = "cs"
    /\ com1 = "None"
    /\ written[p] = 0
    /\ written' = [written EXCEPT ![p] = StrLen]
    /\ UNCHANGED <<com1, k_pc, calls, com_out>>
    /\ UNCHANGED <<range_vars, mutex_vars, uefi_vars, boot_vars>>

\* write_str returns Ok(()): its guard goes out of scope.
WriteStrEnds(p) == written[p] = StrLen

\* The steps of one write_str call of caller p.
WriteStr(p) ==
    \/ AtLock(p) /\ LockTicket(p)
    \/ AtLock(p) /\ LockGrant(p)
    \/ WriteU8(p)
    \/ WriteNone(p)
    \/ WriteStrEnds(p) /\ GuardDrop(p)

\* kernel efi_main: after its println calls, panic!("end").
EndPanic ==
    /\ Returned
    /\ pc[1] = "idle"
    /\ calls[1] = MaxCalls
    /\ k_pc' = "panic"
    /\ UNCHANGED <<com1, written, calls, com_out>>
    /\ UNCHANGED <<range_vars, mutex_vars, uefi_vars, boot_vars>>

\* panic_handler: after its println calls, the hlt loop.
Halt ==
    /\ k_pc = "panic"
    /\ pc[2] = "idle"
    /\ calls[2] = HandlerCalls
    /\ k_pc' = "halt"
    /\ UNCHANGED <<com1, written, calls, com_out>>
    /\ UNCHANGED <<range_vars, mutex_vars, uefi_vars, boot_vars>>

(***************************************************************************)
(* Specifications                                                          *)
(***************************************************************************)
\* RangeSet::new and TicketMutex::new; the build is either kind.
InitExceptFirmware ==
    /\ overflow_checks \in BOOLEAN
    /\ ranges = <<>>
    /\ op = "new"
    /\ hits = 0
    /\ pre_ok = TRUE
    /\ ret = "Ok"
    /\ size_ret = 0
    /\ next_ticket = 0
    /\ now_serving = 0
    /\ pc = [p \in Callers |-> "idle"]
    /\ ticket = [p \in Callers |-> 0]
    /\ order = <<>>
    /\ last_ticket = -1
    /\ status_word = -1
    /\ status = [kind |-> "none"]
    /\ tbl_kind = "none"
    /\ tbl_ret = "none"
    /\ tbl_sums = 0
    /\ tbl_view = <<>>
    /\ tampered = -1
    /\ madt_ptr = 0
    /\ cfg_num = -1
    /\ cfg_tables = <<>>
    /\ cfg_ret = "none"
    /\ cfg_ptr = [ok |-> FALSE, err |-> "none"]
    /\ gm_pc = "idle"
    /\ gm_idx = 0
    /\ gm_ranges = <<>>
    /\ gm_result = "none"
    /\ gm_key = -1
    /\ fw_calls = <<>>
    /\ boot_pc = "start"
    /\ com1 = "None"
    /\ k_pc = "init_serial"
    /\ written = [p \in Callers |-> -1]
    /\ calls = [p \in Callers |-> 0]
    /\ com_out = <<>>
    /\ crc_ret = <<>>

\* No firmware table is in view.
NoTable == mem = <<>>
NoBuffer == crc_buf = <<>>
NoExit == exit_status = 0
NoConfigurationTables == cfg_fw = <<>>
NoMemoryMap ==
    gm_fw = [status |-> 0, map |-> <<>>, memory_map_size |-> 0,
             descriptor_size |-> 1, map_key |-> 0]

Init == InitExceptFirmware /\ NoBuffer /\ NoExit /\ NoTable /\ NoConfigurationTables /\ NoMemoryMap

\* A RangeSet under insert, remove and size.
Next ==
    \/ \E r \in Range : Insert(r)
    \/ \E r \in Range : Remove(r)
    \/ Size

Spec == Init /\ [][Next]_vars

\* A RangeSet under insert only.
NextInsert == \E r \in Range : Insert(r)

InsertSpec == Init /\ [][NextInsert]_vars

\* A TicketMutex shared by NumCallers callers.
NextMutex == \E p \in Callers : LockTicket(p) \/ LockGrant(p) \/ GuardDrop(p)

MutexSpec == Init /\ [][NextMutex]_vars

\* Decoding of the status words firmware calls return.
NextStatus == \E w \in StatusWords : StatusFrom(w)

StatusSpec == Init /\ [][NextStatus]_vars

\* The tables firmware may hand over.
EfiTableImages ==
    {EfiTableImage(EFI_SYSTEM_TABLE_SIGNATURE, EFI_SYSTEM_TABLE_SIZE, sig_ok, crc_ok, fill) :
        sig_ok \in BOOLEAN, crc_ok \in BOOLEAN, fill \in Fills}
    \cup
    {EfiTableImage(EFI_BOOT_SERVICES_SIGNATURE, EFI_BOOT_SERVICES_SIZE, sig_ok, crc_ok, fill) :
        sig_ok \in BOOLEAN, crc_ok \in BOOLEAN, fill \in Fills}

RsdpImages ==
    {RsdpImage(sig_ok, revision, length, delta, trail) :
        sig_ok \in BOOLEAN, revision \in {0, 1, 2}, length \in RsdpLengths,
        delta \in Deltas, trail \in Trails}

XsdtImages ==
    {SdtImage(XSDT_SIGNATURE, sig_ok, length, delta, XsdtBody(length, p), trail) :
        sig_ok \in BOOLEAN, length \in XsdtLengths, delta \in Deltas,
        p \in {1, 3}, trail \in Trails}

MadtImages ==
    {MadtImage(sig_ok, delta, MadtBody(recs), trail) :
        sig_ok \in BOOLEAN, delta \in Deltas, recs \in RecordLists, trail \in Trails}
    \cup
    {MadtImage(TRUE, 0, MadtBodyOfLapics(n), 0) :
        n \in {ACPI_MADT_ENTRIES_LEN, ACPI_MADT_ENTRIES_LEN + 1}}
    \cup
    {MadtImage(TRUE, 0, MadtBody(<<first, last>>), trail) :
        first \in {<<>>, IoApic}, last \in LastRecords, trail \in Trails}
    \cup
    {SdtImage(MADT_SIGNATURE, TRUE, length, 0, MadtBody(<<Lapic(1)>>), trail) :
        length \in ShortMadtLengths, trail \in Trails}

\* Firmware memory holds some table; no constructor has run yet.
TableInit ==
    /\ InitExceptFirmware /\ NoBuffer /\ NoExit /\ NoConfigurationTables /\ NoMemoryMap
    /\ mem \in EfiTableImages \cup RsdpImages \cup XsdtImages \cup MadtImages

\* Validation of the table in firmware memory.
NextTables ==
    \/ \E pad \in {0, 170} : SystemTableNew(pad)
    \/ BootServicesNew
    \/ \E above \in Trails : Rsdp20New(Fill(8, above))
    \/ XsdtNew
    \/ MadtNew
    \/ MadtStep

TableSpec == TableInit /\ [][NextTables]_vars

\* Firmware memory holds a valid XSDT.
TamperInit ==
    /\ InitExceptFirmware /\ NoBuffer /\ NoExit /\ NoConfigurationTables /\ NoMemoryMap
    /\ mem \in {SdtImage(XSDT_SIGNATURE, TRUE, length, 0, XsdtBody(length, p), trail) :
                   length \in {36, 44, 52}, p \in {1, 3}, trail \in Trails}

\* A validated XSDT is altered in one byte and validated again.
NextTamper ==
    \/ XsdtNew
    \/ \E off \in 0..(ACPI_SDT_SIZE + 15), v \in {0, 1, 36, 37, 44, 255} : Tamper(off, v)

TamperSpec == TamperInit /\ [][NextTamper]_vars

\* The system table names some configuration tables.
ConfigInit ==
    /\ InitExceptFirmware /\ NoBuffer /\ NoExit /\ NoTable /\ NoMemoryMap
    /\ cfg_fw \in FirmwareTables

NextConfig ==
    \/ \E num_entries \in 0..(EFI_CONFIGURATION_TABLES_LEN + 2) :
         ConfigurationTablesNew(num_entries)
    \/ AcpiRsdp20Ptr

ConfigSpec == ConfigInit /\ [][NextConfig]_vars

\* Boot services answer GetMemoryMap in some way.
MemoryMapInit ==
    /\ InitExceptFirmware /\ NoBuffer /\ NoExit /\ NoTable /\ NoConfigurationTables
    /\ gm_fw \in FirmwareAnswers

NextMemoryMap == GetMemoryMap \/ WalkStep

MemoryMapSpec == MemoryMapInit /\ [][NextMemoryMap]_vars

\* crc32 is called on some buffer: every buffer of up to MaxCrcLen sample
\* bytes, every single byte, the ASCII digits "123456789", and 0, 1, .., 299
\* modulo 256.
SampleBytes == {0, 1, 2, 85, 127, 128, 170, 255}

CrcBuffers ==
    UNION {[1..n -> SampleBytes] : n \in 0..MaxCrcLen}
    \cup {<<b>> : b \in Byte}
    \cup {<<49, 50, 51, 52, 53, 54, 55, 56, 57>>, [i \in 1..300 |-> (i - 1) % 256]}

CrcInit ==
    /\ InitExceptFirmware /\ NoExit /\ NoTable /\ NoConfigurationTables /\ NoMemoryMap
    /\ crc_buf \in CrcBuffers

NextCrc == Crc32Call

CrcSpec == CrcInit /\ [][NextCrc]_vars

\* The boot: firmware answers GetMemoryMap with up to one descriptor and
\* ExitBootServices with success, a warning or an error.
BootAnswers ==
    {[status |-> st, map |-> m, memory_map_size |-> Len(m),
      descriptor_size |-> 1, map_key |-> key] :
        st \in {0, 1, 2 ^ (STATUS_BITS - 1) + 5},
        m \in {<<>>} \cup {<<d>> : d \in Descriptors},
        key \in {3, 4}}

BootInit ==
    /\ InitExceptFirmware /\ NoBuffer /\ NoTable /\ NoConfigurationTables
    /\ gm_fw \in BootAnswers
    /\ exit_status \in {0, 1, 2 ^ (STATUS_BITS - 1) + 2}

NextBoot ==
    \/ \E ok \in BOOLEAN : EfiMainTables(ok)
    \/ InGetAvailableMemory /\ GetMemoryMap
    \/ InGetAvailableMemory /\ WalkStep
    \/ UnwrapAvailableMemory
    \/ ExitBootServices
    \/ OsMain

BootSpec == BootInit /\ [][NextBoot]_vars

\* A constructor that runs keeps running.
TableFairSpec == TableSpec /\ WF_vars(MadtStep)

\* The descriptor walk: GetMemoryMap succeeds with maps of a few descriptors
\* and a descriptor size of 0, 1 or 2 slots.
WalkDescriptors ==
    [memory_type : {1, 7}, physical_start : {0, PAGE_SIZE}, number_of_pages : {1}]

WalkAnswers ==
    {[status |-> 0, map |-> m, memory_map_size |-> Len(m),
      descriptor_size |-> ds, map_key |-> 3] :
        m \in UNION {[1..n -> WalkDescriptors] : n \in 0..MaxSlots}, ds \in 0..2}

WalkInit ==
    /\ InitExceptFirmware /\ NoBuffer /\ NoExit /\ NoTable /\ NoConfigurationTables
    /\ gm_fw \in WalkAnswers

\* The running loop keeps running.
WalkFairSpec == WalkInit /\ [][NextMemoryMap]_vars /\ WF_vars(WalkStep)

\* init_serial on the boot processor.
InitSerial(unwraps) ==
    \/ k_pc = "init_serial" /\ LockTicket(1)
    \/ k_pc = "init_serial" /\ LockGrant(1)
    \/ \E ok \in BOOLEAN : SerialPortNew(ok, unwraps)
    \/ InitSerialEnds /\ GuardDrop(1)

\* expos: after init_serial, callers print concurrently.
NextConsole ==
    \/ InitSerial(FALSE)
    \/ \E p \in Callers :
         \/ Returned /\ calls[p] < MaxCalls /\ CallWriteStr(p)
         \/ WriteStr(p)

ConsoleSpec == Init /\ [][NextConsole]_vars

\* kernel: init_serial, the println calls of efi_main, panic!("end"), and
\* the panic handler, all on the boot processor.
NextKernel ==
    \/ InitSerial(TRUE)
    \/ Returned /\ calls[1] < MaxCalls /\ CallWriteStr(1)
    \/ Returned /\ WriteStr(1)
    \/ EndPanic
    \/ k_pc = "panic" /\ calls[2] < HandlerCalls /\ CallWriteStr(2)
    \/ k_pc = "panic" /\ WriteStr(2)
    \/ Halt

\* The processor keeps executing.
KernelFairSpec == Init /\ [][NextKernel]_vars /\ WF_vars(NextKernel)

\* Fair scheduling: a caller that can take its step eventually takes it, and
\* every guard is eventually dropped.
MutexFairSpec ==
    /\ Init /\ [][NextMutex]_vars
    /\ \A p \in Callers : WF_vars(LockGrant(p)) /\ WF_vars(GuardDrop(p))

(***************************************************************************)
(* Properties of the range crate                                           *)
(***************************************************************************)
Strictly(rs, r) == \E i \in 1..Len(rs) : rs[i].start < r.start /\ r.end < rs[i].end

SameStart(rs, r) == \E i \in 1..Len(rs) : rs[i].start = r.start

\* C1: starting from an empty set, after any sequence of insert calls that
\* returned, ranges() is strictly ascending by start and consecutive entries
\* neither overlap nor touch (end + 1 < next start), for every valid range of
\* the integer domain, the largest end value included.
C1_InsertKeepsSortedNonAdjacent ==
    ret # "panic" => SortedNonAdjacent(ranges)

\* C2: on a sorted, non-adjacent set, insert(r) returns FullRangeSet exactly
\* when the set is at capacity and no entry starts at r.start; in every other
\* case it returns Ok and the points covered afterwards are the points covered
\* before united with [r.start, r.end].
C2_InsertResult ==
    (ret # "panic" /\ SortedNonAdjacent(ranges)) =>
        \A r \in Range :
            LET res == insert(ranges, r) IN
            /\ res.ret = "FullRangeSet" <=>
                   (Len(ranges) = RANGE_SET_LEN /\ ~SameStart(ranges, r))
            /\ res.ret # "FullRangeSet" =>
                   /\ res.ret = "Ok"
                   /\ Covered(res.ranges) = Covered(ranges) \cup Points(r)

\* C3: on a sorted, non-adjacent set, remove(r) returns FullRangeSet exactly
\* when the set is at capacity and r lies strictly inside one entry; in every
\* other case it returns Ok and the points covered afterwards are the points
\* covered before minus [r.start, r.end], however many entries r overlaps.
C3_RemoveResult ==
    (ret # "panic" /\ SortedNonAdjacent(ranges)) =>
        \A r \in Range :
            LET res == remove(ranges, r) IN
            /\ res.ret = "FullRangeSet" <=>
                   (Len(ranges) = RANGE_SET_LEN /\ Strictly(ranges, r))
            /\ res.ret # "FullRangeSet" =>
                   /\ res.ret = "Ok"
                   /\ Covered(res.ranges) = Covered(ranges) \ Points(r)

\* C3 witness: a remove on a sorted, non-adjacent set returned Ok after its
\* range overlapped several entries.
C3_Witness ==
    op = "remove" /\ pre_ok /\ ret = "Ok" /\ hits >= 2

\* C4: an insert or remove that returns FullRangeSet leaves the in-use count
\* and every in-use entry as they were.
C4_CapacityErrorLeavesSetUnchanged ==
    ret # "panic" =>
        \A r \in Range :
            /\ insert(ranges, r).ret = "FullRangeSet" => insert(ranges, r).ranges = ranges
            /\ remove(ranges, r).ret = "FullRangeSet" => remove(ranges, r).ranges = ranges

\* C5: insert is idempotent on every set reachable by inserts and removes:
\* after an insert(r) that returned Ok, a second insert(r) returns Ok and
\* leaves ranges() as the first one left it.
C5_InsertIdempotent ==
    ret # "panic" =>
        \A r \in Range :
            LET once == insert(ranges, r) IN
            once.ret = "Ok" => insert(once.ranges, r) = Ok(once.ranges)

\* C6: size() returns the sum of (end - start + 1) over the in-use ranges,
\* for every content of the set, the range [0, largest value] included.
C6_SizeIsSum ==
    op = "size" => (ret = "Ok" /\ size_ret = SumOfSizes(ranges))

(***************************************************************************)
(* Properties of the ticket_mutex crate                                    *)
(***************************************************************************)
Draws(p) == pc[p] = "idle" /\ pc'[p] = "spin"
Granted(p) == pc[p] = "spin" /\ pc'[p] = "cs"
Drops(p) == pc[p] = "cs" /\ pc'[p] = "idle"

\* C7: mutual exclusion: in every interleaving of lock() calls and guard
\* drops, at most one TicketMutexGuard exists at any time.
C7_MutualExclusion ==
    Cardinality({p \in Callers : pc[p] = "cs"}) <= 1

\* C7 witness: one caller owns the guard while every other caller spins.
C7_Witness ==
    \E p \in Callers :
        pc[p] = "cs" /\ \A q \in Callers \ {p} : pc[q] = "spin"

\* C8: strict FIFO: a caller is granted the guard only when it is the
\* earliest caller, in the order of the fetch-and-increments, still waiting.
C8_FifoGrant ==
    [][\A p \in Callers : Granted(p) => Head(order) = p]_vars

\* C8 witness: a caller owns the guard while two later callers wait, and the
\* tickets of the waiting callers have wrapped around.
C8_Witness ==
    /\ \E p \in Callers : pc[p] = "cs"
    /\ Len(order) >= 2
    /\ ticket[order[1]] > ticket[order[2]]

\* C9: no starvation: under fair scheduling, with every guard eventually
\* dropped, every caller that entered lock() eventually gets the guard.
C9_NoStarvation ==
    \A p \in Callers : (pc[p] = "spin") ~> (pc[p] = "cs")

\* C9 witness: a caller spins on a ticket that is not being served.
C9_Witness ==
    \E p \in Callers : pc[p] = "spin" /\ now_serving # ticket[p]

\* C10 as stated: every ticket drawn is strictly greater than the one drawn
\* before it, and every guard drop advances now_serving by exactly one.
C10_TicketsStrictlyIncrease ==
    [][/\ \A p \in Callers : Draws(p) => ticket'[p] > last_ticket
       /\ \A p \in Callers : Drops(p) => now_serving' = now_serving + 1]_vars

\* C10 amended: every ticket drawn is the one drawn before it plus one modulo
\* the size of the machine word (strictly greater unless the counter wrapped
\* from the largest value to 0), and every guard drop, and nothing else,
\* advances now_serving by exactly one modulo the size of the machine word.
C10_TicketsConsecutive ==
    [][/\ \A p \in Callers : Draws(p) =>
              /\ ticket'[p] = (last_ticket + 1) % (USIZE_MAX + 1)
              /\ ticket'[p] > last_ticket \/ last_ticket = USIZE_MAX
       /\ \A p \in Callers : Drops(p) =>
              /\ now_serving' = (now_serving + 1) % (USIZE_MAX + 1)
              /\ now_serving' = now_serving + 1 \/ now_serving = USIZE_MAX
       /\ (\A p \in Callers : ~Drops(p)) => now_serving' = now_serving]_vars

\* C10 witness: lock/drop cycles have run until both counters wrapped to 0.
C10_Witness ==
    /\ last_ticket = USIZE_MAX
    /\ next_ticket = 0
    /\ now_serving = 0
    /\ \A p \in Callers : pc[p] = "idle"

(***************************************************************************)
(* EFI_STATUS decoding                                                     *)
(***************************************************************************)
\* The warning names of the UEFI specification, by code.
WarningNames ==
    <<"UnknownGlyph", "DeleteFailure", "WriteFailure", "BufferTooSmall",
      "StaleData", "FileSystem", "ResetRequired">>

\* The error names of the UEFI specification, by code; 29 and 30 are unassigned.
ErrorNames ==
    <<"LoadError", "InvalidParameter", "Unsupported", "BadBufferSize",
      "BufferTooSmall", "NotReady", "DeviceError", "WriteProtected",
      "OutOfResources", "VolumeCorrupted", "VolumeFull", "NoMedia",
      "MediaChanged", "NotFound", "AccessDenied", "NoResponse", "NoMapping",
      "Timeout", "NotStarted", "AlreadyStarted", "Aborted", "IcmpError",
      "TftpError", "ProtocolError", "IncompatibleVersion", "SecurityViolation",
      "CrcError", "EndOfMedia", "Unknown", "Unknown", "EndOfFile",
      "InvalidLanguage", "CompromisedData", "IpAddressConflict", "HttpError">>

ErrorFlag == 2 ^ (STATUS_BITS - 1)

Decoded == status_word # -1

\* C11: decoding a status word never panics and is exact: Success exactly for
\* the word 0; Warning exactly for the non-zero words with the top bit clear,
\* named for 1..7 and Unknown otherwise; Error exactly for the words with the
\* top bit set, named for the codes 1..28 and 31..35 and Unknown for 0, 29, 30
\* and the codes above 35.
C11_StatusDecodingExact ==
    Decoded =>
        /\ status.kind # "panic"
        /\ (status.kind = "Success") <=> (status_word = 0)
        /\ (status.kind = "Warning") <=> (status_word # 0 /\ status_word < ErrorFlag)
        /\ (status.kind = "Error") <=> (status_word >= ErrorFlag)
        /\ status.kind = "Warning" =>
             status.name = IF status_word \in 1..7 THEN WarningNames[status_word]
                           ELSE "Unknown"
        /\ status.kind = "Error" =>
             LET code == status_word - ErrorFlag IN
             status.name = IF code \in 1..35 THEN ErrorNames[code] ELSE "Unknown"

\* An error word with an unassigned code above 35 has been decoded.
C11_Witness ==
    /\ status_word > ErrorFlag + 35
    /\ status.kind = "Error"
    /\ status.name = "Unknown"

\* C12: a word with the top bit set whose remaining bits name no error kind
\* decodes to Error(Unknown(code)), code being the word with the top bit cleared.
C12_UnknownErrorCarriesCode ==
    (Decoded /\ status.kind = "Error" /\ status.name = "Unknown") =>
        status.code = status_word - ErrorFlag

(***************************************************************************)
(* Table validation                                                        *)
(***************************************************************************)
\* The signature each constructor expects, and the one the table carries.
ExpectedSignature ==
    CASE tbl_kind = "SystemTable" -> EFI_SYSTEM_TABLE_SIGNATURE
      [] tbl_kind = "BootServices" -> EFI_BOOT_SERVICES_SIGNATURE
      [] tbl_kind = "Rsdp20" -> ACPI_RSDP_SIGNATURE
      [] tbl_kind = "Xsdt" -> XSDT_SIGNATURE
      [] tbl_kind = "Madt" -> MADT_SIGNATURE

SignatureMatches == SubSeq(mem, 1, Len(ExpectedSignature)) = ExpectedSignature

\* The sum of the bytes m[lo..hi] (mathematical integers).
RECURSIVE ByteSum(_, _, _)
ByteSum(m, lo, hi) ==
    IF lo > hi THEN 0
    ELSE IF lo = hi THEN m[lo]
    ELSE LET mid == (lo + hi) \div 2 IN ByteSum(m, lo, mid) + ByteSum(m, mid + 1, hi)

\* The length field of the ACPI table in memory.
DeclaredLength ==
    LET off == IF tbl_kind = "Rsdp20" THEN 20 ELSE 4 IN
    mem[off + 1] + 256 * mem[off + 2] + 65536 * mem[off + 3] + 16777216 * mem[off + 4]

\* The bytes of the table in firmware memory, over its declared length, sum
\* to 0 modulo 256.
ChecksumPasses == ByteSum(mem, 1, DeclaredLength) % 256 = 0

\* C13: every table constructor rejects a signature mismatch with
\* InvalidSignature, before it computes any checksum.
C13_SignatureFirst ==
    (tbl_kind # "none" /\ ~SignatureMatches) =>
        (tbl_ret = "InvalidSignature" /\ tbl_sums = 0)

\* A table with a wrong signature and a checksum that passes was rejected.
C13_Witness ==
    /\ tbl_kind = "Xsdt"
    /\ ~SignatureMatches
    /\ SubSeq(mem, 2, 4) = Tail(XSDT_SIGNATURE)
    /\ ChecksumPasses
    /\ tbl_ret = "InvalidSignature"

Revision == mem[16]

\* C14 (as stated): the RSDP is validated in the order signature, checksum,
\* revision: with a correct signature a non-zero byte sum is InvalidCheckSum
\* whatever the revision, and InvalidRevision is returned only when signature
\* and checksum pass and the revision is below 2.
C14_RsdpChecksumBeforeRevision ==
    tbl_kind = "Rsdp20" =>
        /\ (SignatureMatches /\ ~ChecksumPasses) => tbl_ret = "InvalidCheckSum"
        /\ tbl_ret = "InvalidRevision" =>
             (SignatureMatches /\ ChecksumPasses /\ Revision < 2)

\* C14 (amended): the order is signature, revision, checksum: with a correct
\* signature a revision below 2 is InvalidRevision whatever the checksum, and
\* InvalidCheckSum is returned only when signature and revision pass (and is
\* returned when they do and the bytes of the 36-byte structure covered by
\* the declared length do not sum to 0).
C14_RsdpRevisionBeforeChecksum ==
    tbl_kind = "Rsdp20" =>
        /\ ~SignatureMatches => tbl_ret = "InvalidSignature"
        /\ (SignatureMatches /\ Revision < 2) => tbl_ret = "InvalidRevision"
        /\ tbl_ret = "InvalidCheckSum" => (SignatureMatches /\ Revision >= 2)
        /\ (SignatureMatches /\ Revision >= 2 /\ DeclaredLength <= ACPI_RSDP_SIZE
              /\ ~ChecksumPasses) => tbl_ret = "InvalidCheckSum"

\* A root pointer with a good signature, a bad checksum and revision 0 or 1.
C14_Witness ==
    /\ tbl_kind = "Rsdp20"
    /\ SignatureMatches
    /\ ~ChecksumPasses
    /\ Revision < 2
    /\ tbl_ret = "InvalidRevision"

C16_RsdpOkExactly ==
    tbl_kind = "Rsdp20" =>
        /\ (tbl_ret = "Ok") <=> (SignatureMatches /\ Revision >= 2 /\ ChecksumPasses)
        /\ (SignatureMatches /\ Revision >= 2 /\ ~ChecksumPasses) =>
             tbl_ret = "InvalidCheckSum"

\* The entries an XSDT of count entries holds: the 8 bytes at 36 + 8 * i.
XsdtPointers(count) == [i \in 1..count |-> SubSeq(mem, 36 + 8 * (i - 1) + 1, 36 + 8 * i)]

\* C17 (as stated): an XSDT whose signature and checksum pass yields a view of
\* (length - 36) / 8 pointers read in order from the offsets 36 + 8 * i when
\* that count is at most 32, and BufferTooSmall with no view above 32.
C17_XsdtViewByCount ==
    (tbl_kind = "Xsdt" /\ SignatureMatches /\ ChecksumPasses) =>
        LET count == (DeclaredLength - 36) \div 8 IN
        IF count <= 32
        THEN tbl_ret = "Ok" /\ Len(tbl_view) = count /\ tbl_view = XsdtPointers(count)
        ELSE tbl_ret = "BufferTooSmall" /\ tbl_view = <<>>

\* C17 (amended): for an XSDT whose signature and checksum pass: a declared
\* length below 36 yields no view (an error, or a panic on the subtraction);
\* a length of at least 36 with (length - 36) not a multiple of 8 is
\* InvalidAcpiData; otherwise the view holds the (length - 36) / 8 pointers
\* read in order from the offsets 36 + 8 * i when that count is at most 32,
\* and the table is rejected with BufferTooSmall above 32.
C17_XsdtView ==
    (tbl_kind = "Xsdt" /\ SignatureMatches /\ ChecksumPasses) =>
        LET count == (DeclaredLength - 36) \div 8 IN
        IF DeclaredLength < 36
        THEN tbl_ret \in {"panic", "InvalidAcpiData", "BufferTooSmall"} /\ tbl_view = <<>>
        ELSE IF (DeclaredLength - 36) % 8 # 0
        THEN tbl_ret = "InvalidAcpiData" /\ tbl_view = <<>>
        ELSE IF count <= 32
        THEN tbl_ret = "Ok" /\ tbl_view = XsdtPointers(count)
        ELSE tbl_ret = "BufferTooSmall" /\ tbl_view = <<>>

\* A valid XSDT filled to the capacity of the view has been read.
C17_Witness ==
    /\ tbl_kind = "Xsdt"
    /\ tbl_ret = "Ok"
    /\ Len(tbl_view) = 32
    /\ tbl_view[1] # tbl_view[32]

\* The offsets of the type-0 records of the MADT in memory, in table order:
\* the records start at offset 44 and each ends where the next starts, its
\* own length byte further on; the list stops after the 257th.
RECURSIVE LapicOffsets(_, _)
LapicOffsets(off, acc) ==
    IF Len(acc) > 256 \/ off >= DeclaredLength THEN acc
    ELSE LapicOffsets(off + mem[off + 2], IF mem[off + 1] = 0 THEN Append(acc, off) ELSE acc)

\* C18: for a MADT whose signature and checksum pass, lapic() is exactly the
\* type-0 records of the body in table order, each as (processor UID, APIC
\* ID, flags), the other records being skipped by their length byte; with
\* more than 256 type-0 records the table is rejected with BufferTooSmall.
C18_LapicRecords ==
    (tbl_kind = "Madt" /\ SignatureMatches /\ ChecksumPasses
       /\ tbl_ret \in {"Ok", "BufferTooSmall"}) =>
        LET offs == LapicOffsets(44, <<>>) IN
        IF Len(offs) > 256 THEN tbl_ret = "BufferTooSmall"
        ELSE /\ tbl_ret = "Ok"
             /\ tbl_view = [i \in 1..Len(offs) |->
                              [proc_uid |-> mem[offs[i] + 3],
                               apic_id |-> mem[offs[i] + 4],
                               flags |-> SubSeq(mem, offs[i] + 5, offs[i] + 8)]]

\* A MADT with a local APIC record and a record of another type was read.
C18_Witness ==
    /\ tbl_kind = "Madt"
    /\ tbl_ret = "Ok"
    /\ Len(tbl_view) = 1
    /\ madt_ptr > 52

(***************************************************************************)
(* Configuration tables                                                    *)
(***************************************************************************)
\* The entries among the first cfg_num of firmware's array that carry the
\* GUID 8868E871-E4F1-11D3-BC22-0080C73C8881.
AcpiEntries == {i \in 1..cfg_num : cfg_fw[i].vendor_guid = EFI_ACPI_20_TABLE_GUID}

\* C19: ConfigurationTables::new rejects an entry count above 32 with
\* BufferTooSmall; acpi_rsdp20_ptr returns the pointer of the first of the
\* num_entries entries with the ACPI 2.0 GUID, and NotFound when none has it.
C19_AcpiRsdpLookup ==
    /\ cfg_num > 32 => cfg_ret = "BufferTooSmall"
    /\ (cfg_num \in 0..32) => cfg_ret = "Ok"
    /\ (cfg_ret = "Ok" /\ (cfg_ptr.ok \/ cfg_ptr.err # "none")) =>
         IF AcpiEntries = {} THEN cfg_ptr = [ok |-> FALSE, err |-> "NotFound"]
         ELSE LET first == CHOOSE i \in AcpiEntries : \A j \in AcpiEntries : i <= j IN
              cfg_ptr = [ok |-> TRUE, val |-> cfg_fw[first].vendor_table]

\* A lookup found nothing in an array whose used part is shorter than 32.
C19_Witness ==
    /\ cfg_num \in 0..2
    /\ cfg_ret = "Ok"
    /\ cfg_ptr = [ok |-> FALSE, err |-> "NotFound"]

(***************************************************************************)
(* Available memory                                                        *)
(***************************************************************************)
\* The descriptors the walk has to examine: slot k * descriptor_size for
\* every k below memory_map_size / descriptor_size.
Examined ==
    {gm_fw.map[k * gm_fw.descriptor_size + 1] :
        k \in 0..((gm_fw.memory_map_size \div gm_fw.descriptor_size) - 1)}

Usable == {d \in Examined : d.memory_type \in {3, 4, 7, 9}}

\* [physical_start, physical_start + page size * pages - 1]
BlockOf(d) == d.physical_start..(d.physical_start + PAGE_SIZE * d.number_of_pages - 1)

UsableUnion == UNION {BlockOf(d) : d \in Usable}

\* The number of maximal runs of a set of addresses.
Runs(S) == Cardinality({x \in S : (x - 1) \notin S})

\* C20: when GetMemoryMap returns success, get_available_memory returns Ok
\* with firmware's map key and a RangeSet covering exactly the union of the
\* blocks of the descriptors of type 3, 4, 7 and 9, for every page count from
\* 0 on and every start address, when the union needs no more ranges than the
\* set holds.  (Blocks that end below the last address; see C1 for the last.)
C20_AvailableMemory ==
    (/\ gm_pc = "done"
     /\ gm_fw.status = 0
     /\ \A d \in Usable : d.physical_start + PAGE_SIZE * d.number_of_pages - 1 < U64_MAX
     /\ Runs(UsableUnion) <= RANGE_SET_LEN) =>
        /\ gm_result = "Ok"
        /\ gm_key = gm_fw.map_key
        /\ Covered(gm_ranges) = UsableUnion

(***************************************************************************)
(* RangeSet::remove and the invariant                                      *)
(***************************************************************************)
EndsBelowMax(rs) == \A i \in 1..Len(rs) : rs[i].end < U64_MAX

\* C23: remove keeps the entries strictly ascending and non-adjacent for
\* every valid range, whether it returns Ok or an error; and the sets with
\* that property and ends below the largest value are closed under insert
\* and remove of ranges with ends below the largest value, neither of which
\* panics on them, so every set built that way from the empty set has it.
C23_RemoveKeepsSortedNonAdjacent ==
    (ret # "panic" /\ SortedNonAdjacent(ranges)) =>
        \A r \in Range :
            LET rem == remove(ranges, r)
                ins == insert(ranges, r)
            IN  /\ rem.ret # "panic"
                /\ SortedNonAdjacent(rem.ranges)
                /\ EndsBelowMax(ranges) => EndsBelowMax(rem.ranges)
                /\ (EndsBelowMax(ranges) /\ r.end < U64_MAX) =>
                       /\ ins.ret # "panic"
                       /\ SortedNonAdjacent(ins.ranges)
                       /\ EndsBelowMax(ins.ranges)

\* A remove from the middle of the only entry left two entries, one point apart.
C23_Witness ==
    /\ op = "remove" /\ pre_ok /\ ret = "Ok" /\ hits = 1
    /\ Len(ranges) = 2
    /\ ranges[1].end + 2 = ranges[2].start

(***************************************************************************)
(* TicketMutex across the wrap of its counters                             *)
(***************************************************************************)
Holders == {p \in Callers : pc[p] = "cs"}

\* C28: with fewer callers than values of the machine word, and in
\* particular while the tickets in use straddle the wrap from the largest
\* value to 0: at most one caller holds the guard; the holder's ticket is
\* now_serving; the waiting callers hold, in the order of their draws, the
\* tickets that follow modulo the size of the word; so the exit test of the
\* spin loop passes for no waiting caller while the guard is held, and for
\* the earliest waiting caller only when it is free.
C28_WrapKeepsExclusionAndFifo ==
    NumCallers < USIZE_MAX + 1 =>
        /\ Cardinality(Holders) <= 1
        /\ \A p \in Holders : ticket[p] = now_serving
        /\ \A k \in 1..Len(order) :
               ticket[order[k]] =
                   (now_serving + Cardinality(Holders) + k - 1) % (USIZE_MAX + 1)
        /\ \A k \in 1..Len(order) :
               served(now_serving, ticket[order[k]]) => (k = 1 /\ Holders = {})

\* The holder has the largest ticket and two callers wait with tickets 0 and 1.
C28_Witness ==
    /\ \E p \in Holders : ticket[p] = USIZE_MAX
    /\ Len(order) = 2
    /\ ticket[order[1]] = 0
    /\ ticket[order[2]] = 1

(***************************************************************************)
(* CRC-32                                                                  *)
(***************************************************************************)
\* 0xEDB88320
REFLECTED_POLYNOMIAL == <<60856, 33568>>

\* n times: shift right by one, and xor the polynomial in when the bit
\* shifted out was set.
RECURSIVE ShiftRounds(_, _)
ShiftRounds(x, n) ==
    IF n = 0 THEN x
    ELSE LET shifted == <<x[1] \div 2, (x[1] % 2) * 32768 + x[2] \div 2>>
         IN  ShiftRounds(IF x[2] % 2 = 1 THEN xor32(shifted, REFLECTED_POLYNOMIAL)
                         ELSE shifted, n - 1)

\* The bit-by-bit CRC register after the bytes m[lo + 1 .. hi].
RECURSIVE BitwiseRegister(_, _, _, _)
BitwiseRegister(m, lo, hi, reg) ==
    IF lo >= hi THEN reg
    ELSE IF hi = lo + 1 THEN ShiftRounds(xor32(reg, <<0, m[hi]>>), 8)
    ELSE LET mid == (lo + hi) \div 2
             left == BitwiseRegister(m, lo, mid, reg)
         IN  IF Len(left) = 2 THEN BitwiseRegister(m, mid, hi, left) ELSE left

\* Initial value 0xFFFFFFFF, final xor 0xFFFFFFFF.
BitwiseCrc32(m) == xor32(BitwiseRegister(m, 0, Len(m), <<65535, 65535>>), <<65535, 65535>>)

\* C22: crc32 returns the reflected CRC-32 of the buffer as the bit-by-bit
\* computation gives it, and entry i of the lookup table is i shifted right
\* 8 times with 0xEDB88320 xored in whenever the bit shifted out is set
\* (looked at for every i that is a byte of the buffer; the buffers have
\* every byte value).
C22_Crc32IsReflectedCrc32 ==
    crc_ret # <<>> =>
        /\ crc_ret = BitwiseCrc32(crc_buf)
        /\ \A i \in {crc_buf[k] : k \in 1..Len(crc_buf)} :
               build_crc32_table[i] = ShiftRounds(<<0, i>>, 8)

\* crc32 of "123456789" is the check value 0xCBF43926 of CRC-32.
C22_Witness ==
    /\ crc_buf = <<49, 50, 51, 52, 53, 54, 55, 56, 57>>
    /\ crc_ret = <<52212, 14630>>

(***************************************************************************)
(* The boot sequence                                                       *)
(***************************************************************************)
Calls(name) == {k \in 1..Len(fw_calls) : fw_calls[k].call = name}

Succeeds(st) == status_from(st).kind = "Success"

\* C21: ExitBootServices is called at most once, directly after the one
\* GetMemoryMap call of a get_available_memory that returned Ok, and with the
\* key that call gave; a status other than success from either call halts
\* the boot in a panic with no further call; os_main runs only after
\* ExitBootServices returned success.
C21_ExitBootServicesOnce ==
    /\ Cardinality(Calls("ExitBootServices")) <= 1
    /\ Cardinality(Calls("GetMemoryMap")) <= 1
    /\ \A k \in Calls("ExitBootServices") :
           /\ k = 2
           /\ fw_calls[1].call = "GetMemoryMap"
           /\ gm_pc = "done" /\ gm_result = "Ok"
           /\ fw_calls[k].map_key = fw_calls[1].map_key
    /\ (Calls("GetMemoryMap") # {} /\ ~Succeeds(gm_fw.status) /\ boot_pc # "memory") =>
           boot_pc = "panic" /\ Len(fw_calls) = 1
    /\ (Calls("ExitBootServices") # {} /\ ~Succeeds(exit_status)) =>
           boot_pc = "panic" /\ Len(fw_calls) = 2
    /\ boot_pc \in {"os_main", "end"} =>
           Calls("ExitBootServices") # {} /\ Succeeds(exit_status)

\* ExitBootServices answered the key of the memory map with an error, and
\* the boot halted.
C21_Witness ==
    /\ Len(fw_calls) = 2
    /\ fw_calls[2] = [call |-> "ExitBootServices", map_key |-> gm_fw.map_key]
    /\ status_from(exit_status).kind = "Error"
    /\ boot_pc = "panic"

(***************************************************************************)
(* The record walk of Madt::new                                            *)
(***************************************************************************)
InLoopBody ==
    tbl_kind = "Madt" /\ tbl_ret = "running" /\ madt_ptr < DeclaredLength

\* C24: every byte a pass of the loop body reads (type byte, length byte,
\* local-APIC record) lies at an offset below the declared length.
C24_ReadsBelowDeclaredLength ==
    InLoopBody => \A off \in madt_reads(mem, madt_ptr, Len(tbl_view)) : off < DeclaredLength

\* C25: Madt::new, once the header passed, returns.
C25_MadtNewTerminates ==
    (tbl_kind = "Madt" /\ tbl_ret = "running") ~> (tbl_ret # "running")

\* The size of what the constructor decodes before any entry.
FixedPart == IF tbl_kind = "Madt" THEN ACPI_SDT_SIZE + ACPI_MADT_FIELDS_SIZE ELSE ACPI_SDT_SIZE

\* C26: Xsdt::new and Madt::new, given a table with the right signature and
\* a declared length below the fixed part they decode, return an error:
\* no view, and no panic from `length - 36`.
C26_ShortTableRejected ==
    (/\ tbl_kind \in {"Xsdt", "Madt"}
     /\ tbl_ret \notin {"none", "running"}
     /\ SignatureMatches
     /\ DeclaredLength < FixedPart) =>
        tbl_ret \notin {"Ok", "panic"}

(***************************************************************************)
(* The descriptor walk of get_available_memory                             *)
(***************************************************************************)
\* C29: after a successful GetMemoryMap the descriptor walk returns, for
\* every descriptor size, 0 included; and when it returns Ok it has examined
\* floor(memory_map_size / descriptor_size) descriptors.
C29_WalkTerminates ==
    /\ (gm_pc = "walk") ~> (gm_pc = "done")
    /\ [](gm_result = "Ok" /\ gm_fw.descriptor_size > 0 =>
            gm_idx = gm_fw.memory_map_size \div gm_fw.descriptor_size)

(***************************************************************************)
(* The serial console                                                      *)
(***************************************************************************)
\* C27: once the panic handler runs, each of its lock() calls is granted
\* and it reaches the hlt loop, also when the panic was raised under the
\* COM1 guard.
C27_PanicHandlerHalts ==
    /\ (k_pc = "panic") ~> (k_pc = "halt")
    /\ (k_pc = "panic" /\ pc[2] = "spin") ~> (pc[2] = "cs")

\* C30: the serial output is a sequence of whole write_str strings: every
\* byte but the first of a string directly follows the byte before it of
\* the same call, and a string that is not complete is followed by nothing
\* else.
C30_WriteStrContiguous ==
    \A j \in 1..Len(com_out) :
        /\ com_out[j].index > 1 =>
               /\ j > 1
               /\ com_out[j - 1] = [com_out[j] EXCEPT !.index = com_out[j].index - 1]
        /\ (com_out[j].index < StrLen /\ j < Len(com_out)) =>
               com_out[j + 1] = [com_out[j] EXCEPT !.index = com_out[j].index + 1]

\* Two callers have written their strings, the later one while the third
\* waited for the lock.
C30_Witness ==
    /\ Len(com_out) = 2 * StrLen
    /\ com_out[1].caller # com_out[Len(com_out)].caller
    /\ \E p \in Callers : pc[p] = "spin"

====
